---- MODULE Spec2Model ----
(***************************************************************************)
(* Emotion radar: the scoring engine (analyze) and the history store       *)
(* (commitHistory / appendWithLimit / pin / delete / clear).               *)
(*                                                                         *)
(* Strings are sequences of UTF-16 code units, as JavaScript sees them.    *)
(* JavaScript numbers are modelled as exact rationals <<n, d>> with d > 0  *)
(* in lowest terms; floating-point rounding is not modelled.               *)
(***************************************************************************)
EXTENDS Integers, Sequences, FiniteSets, TLC

VARIABLES
  \* the live view of the scoring engine
  aText,          \* the text state
  aLex,           \* the lexicon state, as an index into Lexicons
  aBoost,         \* the relationBoost state
  aRes,           \* the result memo: analyze(text, lexicon, relationBoost)
  aTrace,         \* one record per iteration of analyze's occurrence loop
  aLeaders,       \* the leaders memo
  aComments       \* the activeComments memo: the category and the pool of each comment

VARIABLES
  \* appendWithLimit applied to a growing list, in both variants of the function
  apList,         \* the list held by the recent-window variant
  apListAll,      \* the list held by the whole-history variant
  apHashSet,      \* the hashSet argument of the whole-history variant
  apMax,          \* the max argument
  apCall,         \* <<>> or <<the arguments of the latest call>>
  apClock         \* calls made so far

VARIABLES
  \* the app: the text area and the history store
  hText,          \* the text state of the app with the history store
  history,        \* the history state
  stored,         \* localStorage[HISTORY_KEY], parsed
  lastSavedHash,  \* lastSavedHashRef.current, <<>> for null
  saveTimer,      \* saveTimerRef: <<>> or <<the closure the pending timer runs>>
  now,            \* Date.now(), counted in items built
  toast,          \* the toast state: <<>> for null, or <<kind>>
  lastCommit,     \* <<>> or <<the latest commitHistory call that got past the length check>>
  sessionAppends, \* items the triggers appended since the latest event that is not a trigger
  mounted,        \* the component is mounted
  showHistExport, \* the showHistExport state
  histExportText, \* the histExportText state: <<>> for "", or <<the JSON text>>
  alerted,        \* <<>> or <<the message of the alert the latest import or export raised>>
  historyHashSet, \* historyHashSet.current of the whole-history variant
  storage,        \* localStorage: what getItem returns for the three keys
  loaded,         \* <<>> or <<what the three loads of the mount effects returned>>
  timers,         \* the timeouts setTimeout has scheduled and that are still pending
  timerRef,       \* saveTimerRef.current as a timeout id, 0 for null
  clock           \* the time in ticks, the time of the latest keystroke, ids handed out

VARIABLES
  \* functions of the app applied on their own
  hashed          \* <<>> or <<the string hashed and what each simpleHash returned>>

VARIABLES
  \* the pet of TamagotchiPanel and of the quick feed of the top page
  pet,            \* the pet state of the panel, <<>> while the panel is not mounted
  petSaved,       \* localStorage[PET_KEY], parsed
  feedLog,        \* localStorage[FEED_LOG_KEY]: the meals of PetMeals it holds
  latest,         \* result.normalized of the top page, as an index into PetMeals
  lastStageRef    \* lastStageRef.current of the panel

VARIABLES
  \* countSubstringIndices, one iteration of its loop at a time
  scan            \* <<>> or <<[text, term, from, indices, done]>>

analysisVars == <<aText, aLex, aBoost, aRes, aTrace, aLeaders, aComments>>
appendVars == <<apList, apListAll, apHashSet, apMax, apCall, apClock>>
appVars == <<hText, history, stored, lastSavedHash, saveTimer, now, toast,
             lastCommit, sessionAppends>>
\* what the text area's handlers leave alone
petVars == <<pet, petSaved, feedLog, latest, lastStageRef>>
otherVars == <<hashed, petVars, scan>>
sideVars == <<mounted, showHistExport, histExportText, alerted, historyHashSet,
              storage, loaded, timers, timerRef, clock, otherVars>>

vars == <<aText, aLex, aBoost, aRes, aTrace, aLeaders, aComments,
          apList, apListAll, apHashSet, apMax, apCall, apClock,
          hText, history, stored, lastSavedHash, saveTimer, now, toast,
          lastCommit, sessionAppends,
          mounted, showHistExport, histExportText, alerted, historyHashSet,
          storage, loaded, timers, timerRef, clock, otherVars>>

(***************************************************************************)
(* Numbers                                                                 *)
(***************************************************************************)
Abs(n) == IF n < 0 THEN -n ELSE n

RECURSIVE Gcd(_, _)
Gcd(a, b) == IF b = 0 THEN a ELSE Gcd(b, a % b)

\* the rational n/d (d > 0) in lowest terms
Q(n, d) ==
  LET g == Gcd(Abs(n), d)
  IN  IF g = 0 THEN <<0, 1>> ELSE <<n \div g, d \div g>>

QInt(n) == <<n, 1>>
QAdd(a, b) ==
  LET g == Gcd(a[2], b[2])
  IN  Q(a[1] * (b[2] \div g) + b[1] * (a[2] \div g), (a[2] \div g) * b[2])
QNeg(a) == <<-a[1], a[2]>>
QSub(a, b) == QAdd(a, QNeg(b))
QMul(a, b) ==
  LET x == Q(a[1], b[2])
      y == Q(b[1], a[2])
  IN  <<x[1] * y[1], x[2] * y[2]>>
\* a / b for b > 0
QDiv(a, b) == QMul(a, <<b[2], b[1]>>)
\* a <= b, by integer parts and then the reciprocals of the fractional parts
RECURSIVE QLe(_, _)
QLe(a, b) ==
  LET qa == a[1] \div a[2]
      qb == b[1] \div b[2]
      ra == a[1] - qa * a[2]
      rb == b[1] - qb * b[2]
  IN  IF qa # qb THEN qa < qb
      ELSE IF ra = 0 THEN TRUE
      ELSE IF rb = 0 THEN FALSE
      ELSE QLe(<<b[2], rb>>, <<a[2], ra>>)
QLt(a, b) == ~QLe(b, a)
QMax(a, b) == IF QLe(a, b) THEN b ELSE a
QMin(a, b) == IF QLe(a, b) THEN a ELSE b
QAbs(a) == <<Abs(a[1]), a[2]>>
QZero == <<0, 1>>

MinOf(S) == CHOOSE x \in S : \A y \in S : x <= y
MaxOf(S) == CHOOSE x \in S : \A y \in S : y <= x

(***************************************************************************)
(* Strings (0-based indices, as in the source)                             *)
(***************************************************************************)
\* String.prototype.slice(from, to) for 0 <= from
Slice(s, from, to) ==
  LET e == IF to < Len(s) THEN to ELSE Len(s)
  IN  IF from >= e THEN <<>> ELSE SubSeq(s, from + 1, e)

\* String.prototype.indexOf(term, from); the empty term is found at from, or
\* at the end of s when from is past it
IndexOf(s, term, from) ==
  LET hits == {i \in from .. (Len(s) - Len(term)) : Slice(s, i, i + Len(term)) = term}
  IN  IF term = <<>> THEN (IF from > Len(s) THEN Len(s) ELSE from)
      ELSE IF hits = {} THEN -1 ELSE MinOf(hits)

Includes(s, w) == IndexOf(s, w, 0) # -1

StartsWith(s, w) == Slice(s, 0, Len(w)) = w

\* the code units String.prototype.trim() strips
WhiteSpace ==
  {9, 10, 11, 12, 13, 32, 160, 5760, 8232, 8233, 8239, 8287, 12288, 65279}
    \cup (8192 .. 8202)

\* mutant: no trimming
TrimNothing(s) == s

Trim(s) ==
  LET keep == {i \in 1 .. Len(s) : s[i] \notin WhiteSpace}
  IN  IF keep = {} THEN <<>> ELSE SubSeq(s, MinOf(keep), MaxOf(keep))

(***************************************************************************)
(* Categories, lexicon and keyword tables                                  *)
(***************************************************************************)
\* 愛情, 切なさ, 悲しみ, 甘え, 欲 in the source's order
categories == <<"affection", "longing", "sadness", "dependence", "desire">>

Category == {categories[i] : i \in 1 .. Len(categories)}

\* an optional field that is absent is <<>>; one that is present is <<value>>
Unset == <<>>

\* a lexeme with weight w/10 and no categories field
L(term, w) == [term |-> term, weight |-> <<Q(w, 10)>>, categories |-> Unset]
\* a lexeme with weight w/10 and a categories field
LC(term, w, cats) == [term |-> term, weight |-> <<Q(w, 10)>>, categories |-> <<cats>>]

DEFAULT_LEXICON ==
  [affection |-> <<
     L(<<24859, 12375, 12390, 12427>>, 30),          \* 愛してる
     L(<<24859, 12375, 12390, 12427, 12424>>, 30),   \* 愛してるよ
     L(<<22909, 12365>>, 20),                        \* 好き
     L(<<22823, 22909, 12365>>, 30),                 \* 大好き
     L(<<12356, 12392, 12375, 12356>>, 20),          \* いとしい
     L(<<22823, 20999>>, 20),                        \* 大切
     L(<<12378, 12387, 12392>>, 15),                 \* ずっと
     L(<<25265, 12365, 12375, 12417>>, 20),          \* 抱きしめ
     L(<<12366, 12421>>, 18),                        \* ぎゅ
     L(<<12461, 12473>>, 16),                        \* キス
     L(<<12381, 12400, 12395>>, 14),                 \* そばに
     L(<<19968, 32210, 12395>>, 12),                 \* 一緒に
     L(<<35475, 12358>>, 18) >>,                     \* 誓う
   longing |-> <<
     L(<<20999, 12394, 12356>>, 30),                 \* 切ない
     LC(<<24651, 12375, 12356>>, 22, <<"affection", "longing">>),         \* 恋しい
     LC(<<20250, 12356, 12383, 12356>>, 24, <<"affection", "longing">>),  \* 会いたい
     L(<<12414, 12384>>, 10),                        \* まだ
     L(<<12418, 12375>>, 12),                        \* もし
     L(<<12356, 12388, 12363>>, 12),                 \* いつか
     L(<<23626, 12363>>, 14),                        \* 届か
     L(<<36275, 12426, 12394, 12356>>, 16),          \* 足りない
     L(<<12383, 12417, 24687>>, 16) >>,              \* ため息
   sadness |-> <<
     L(<<24754, 12375, 12356>>, 30),                 \* 悲しい
     L(<<28057>>, 24),                               \* 涙
     L(<<36763, 12356>>, 24),                        \* 辛い
     L(<<33510, 12375, 12356>>, 22),                 \* 苦しい
     L(<<23490, 12375, 12356>>, 22),                 \* 寂しい
     L(<<30171, 12356>>, 16),                        \* 痛い
     L(<<27875>>, 20),                               \* 泣
     L(<<21930, 22833>>, 22) >>,                     \* 喪失
   dependence |-> <<
     L(<<12397, 12360>>, 14),                        \* ねえ
     L(<<12362, 39000, 12356>>, 18),                 \* お願い
     L(<<12384, 12387, 12371>>, 20),                 \* だっこ
     L(<<25771, 12391, 12390>>, 18),                 \* 撫でて
     L(<<12424, 12375, 12424, 12375>>, 16),          \* よしよし
     L(<<12381, 12400, 12395, 12356, 12390>>, 20),   \* そばにいて
     L(<<12366, 12421, 12540>>, 18),                 \* ぎゅー
     L(<<29976, 12360>>, 20),                        \* 甘え
     L(<<38972, 12387, 12390>>, 16) >>,              \* 頼って
   desire |-> <<
     L(<<27442, 12375, 12356>>, 20),                 \* 欲しい
     L(<<27442>>, 22),                               \* 欲
     L(<<12418, 12387, 12392>>, 18),                 \* もっと
     L(<<27714, 12417>>, 20),                        \* 求め
     L(<<12367, 12384, 12373, 12356>>, 12),          \* ください
     L(<<12375, 12390>>, 11),                        \* して
     LC(<<35302, 12428>>, 16, <<"affection", "desire">>),  \* 触れ
     LC(<<25265, 12356>>, 16, <<"affection", "desire">>),  \* 抱い
     L(<<29105>>, 14) >>]                            \* 熱

\* とても すごく めっちゃ 超絶 超 かなり 本当に ほんとに めちゃくちゃ
INTENSIFIERS ==
  << <<12392, 12390, 12418>>, <<12377, 12372, 12367>>,
     <<12417, 12387, 12385, 12419>>, <<36229, 32118>>, <<36229>>,
     <<12363, 12394, 12426>>, <<26412, 24403, 12395>>,
     <<12411, 12435, 12392, 12395>>,
     <<12417, 12385, 12419, 12367, 12385, 12419>> >>

\* 少し ちょっと やや まあまあ すこし
DIMINISHERS ==
  << <<23569, 12375>>, <<12385, 12423, 12387, 12392>>, <<12420, 12420>>,
     <<12414, 12354, 12414, 12354>>, <<12377, 12371, 12375>> >>

\* じゃない ではない ない ぬ ず
NEGATIONS ==
  << <<12376, 12419, 12394, 12356>>, <<12391, 12399, 12394, 12356>>,
     <<12394, 12356>>, <<12396>>, <<12378>> >>

EMOJI_BOOST ==
  [affection  |-> << <<10084, 65039>>, <<55357, 56469>>, <<55357, 56856>>,
                     <<55357, 56470>>, <<55358, 56688>> >>,
   longing    |-> << <<55358, 56698>>, <<55357, 56866>> >>,
   sadness    |-> << <<55357, 56866>>, <<55357, 56877>> >>,
   dependence |-> << <<55358, 56626>>, <<55358, 56599>> >>,
   desire     |-> << <<55357, 56613>>, <<55357, 56486>>, <<55357, 56847>> >>]

\* あなた 君 妻 夫 二人 ずっと一緒 約束 誓い
bondBoosters ==
  << <<12354, 12394, 12383>>, <<21531>>, <<22971>>, <<22827>>,
     <<20108, 20154>>, <<12378, 12387, 12392, 19968, 32210>>,
     <<32004, 26463>>, <<35475, 12356>> >>

\* the ledger key "__RELATION_META__"
RELATION_META ==
  <<95, 95, 82, 69, 76, 65, 84, 73, 79, 78, 95, 77, 69, 84, 65, 95, 95>>

LEFT_WINDOW == 8
RIGHT_WINDOW == 6

EPS == Q(1, 10000)

(***************************************************************************)
(* The scoring engine                                                      *)
(***************************************************************************)
RECURSIVE IndicesFrom(_, _, _)
IndicesFrom(text, term, from) ==
  LET idx == IndexOf(text, term, from)
  IN  IF idx = -1 THEN <<>>
      ELSE <<idx>> \o IndicesFrom(text, term, idx + Len(term))

countSubstringIndices(text, term) == IndicesFrom(text, term, 0)

windowHas(wordList, windowText) ==
  \E k \in 1 .. Len(wordList) : Includes(windowText, wordList[k])

\* (text.match(new RegExp(w, "g")) || []).length for a literal pattern w
MatchCount(text, w) == Len(countSubstringIndices(text, w))

RECURSIVE SumMatches(_, _, _)
SumMatches(text, words, k) ==
  IF k > Len(words) THEN 0
  ELSE MatchCount(text, words[k]) + SumMatches(text, words, k + 1)

baseEmojiBoost(text, cat) ==
  QMul(QInt(SumMatches(text, EMOJI_BOOST[cat], 1)), Q(12, 10))

\* the bonus of the relationBoost block
RelationBonus(t) == QMul(QInt(SumMatches(t, bondBoosters, 1)), Q(6, 10))

\* lex.weight ?? 1
WeightOf(lex) == IF lex.weight = Unset THEN QInt(1) ELSE lex.weight[1]

\* mutant: the categories field is ignored
CatsOfOwnerOnly(lex, cat) == <<cat>>

\* lex.categories ?? [cat]
CatsOf(lex, cat) == IF lex.categories = Unset THEN <<cat>> ELSE lex.categories[1]

\* mutant: t.slice(idx - 8, idx), a negative start counting from the end
LeftOfUnclamped(t, idx) ==
  LET from == idx - LEFT_WINDOW
      start == IF from >= 0 THEN from
               ELSE IF Len(t) + from > 0 THEN Len(t) + from ELSE 0
  IN  Slice(t, start, idx)

LeftOf(t, idx) ==
  Slice(t, IF idx - LEFT_WINDOW > 0 THEN idx - LEFT_WINDOW ELSE 0, idx)

\* mutant: the window starts at the match, not after it
RightOfFromMatch(t, idx, term) == Slice(t, idx, idx + RIGHT_WINDOW)

RightOf(t, idx, term) ==
  Slice(t, idx + Len(term), idx + Len(term) + RIGHT_WINDOW)

\* the factor of one occurrence of term at idx
Factor(t, idx, term) ==
  LET left == LeftOf(t, idx)
      right == RightOf(t, idx, term)
      f1 == IF windowHas(INTENSIFIERS, left) THEN Q(3, 2) ELSE QInt(1)
      f2 == IF windowHas(DIMINISHERS, left) THEN QMul(f1, Q(7, 10)) ELSE f1
  IN  IF windowHas(NEGATIONS, right) THEN QZero ELSE f2

\* one record per iteration of `for (const idx of idxs)` for lexeme lex of cat
OccurrencesOf(t, cat, lex) ==
  LET idxs == countSubstringIndices(t, lex.term)
  IN  [k \in 1 .. Len(idxs) |->
        [owner  |-> cat,
         lexeme |-> lex,
         term   |-> lex.term,
         weight |-> WeightOf(lex),
         idx    |-> idxs[k],
         delta  |-> QMul(WeightOf(lex), Factor(t, idxs[k], lex.term)),
         cats   |-> CatsOf(lex, cat)]]

RECURSIVE LexemeLoop(_, _, _, _)
LexemeLoop(t, cat, lexemes, i) ==
  IF i > Len(lexemes) THEN <<>>
  ELSE OccurrencesOf(t, cat, lexemes[i]) \o LexemeLoop(t, cat, lexemes, i + 1)

RECURSIVE CategoryLoop(_, _, _)
CategoryLoop(t, lexicon, c) ==
  IF c > Len(categories) THEN <<>>
  ELSE LexemeLoop(t, categories[c], lexicon[categories[c]], 1)
         \o CategoryLoop(t, lexicon, c + 1)

\* every occurrence the nested loops visit, in the order they visit it
Occurrences(text, lexicon) ==
  LET t == Trim(text)
  IN  IF t = <<>> THEN <<>> ELSE CategoryLoop(t, lexicon, 1)

\* m.set(k, (m.get(k) || 0) + v)
MapAdd(m, k, v) ==
  IF k \in DOMAIN m THEN [m EXCEPT ![k] = QAdd(@, v)] ELSE (k :> v) @@ m

\* raw[cc] += delta; details.get(cc).set(term, ... + delta)
Route(acc, cc, term, delta) ==
  [raw     |-> [acc.raw EXCEPT ![cc] = QAdd(@, delta)],
   details |-> [acc.details EXCEPT ![cc] = MapAdd(@, term, delta)]]

RECURSIVE RouteCats(_, _, _)
RouteCats(acc, occ, j) ==
  IF j > Len(occ.cats) THEN acc
  ELSE RouteCats(Route(acc, occ.cats[j], occ.term, occ.delta), occ, j + 1)

RECURSIVE RouteAll(_, _, _)
RouteAll(acc, occs, k) ==
  IF k > Len(occs) THEN acc
  ELSE RouteAll(RouteCats(acc, occs[k], 1), occs, k + 1)

ZeroScores == [c \in Category |-> QZero]

RECURSIVE QMaxOver(_, _, _)
QMaxOver(f, cs, k) ==
  IF k = Len(cs) THEN f[cs[k]] ELSE QMax(f[cs[k]], QMaxOver(f, cs, k + 1))

\* Math.max(...categories.map(c => f[c]))
MaxScore(f) == QMaxOver(f, categories, 1)

analyze(text, lexicon, relationBoost) ==
  LET t == Trim(text)
  IN  IF t = <<>>
      THEN [raw |-> ZeroScores, normalized |-> ZeroScores, details |-> <<>>]
      ELSE
        LET exclam == Cardinality({i \in 1 .. Len(t) : t[i] \in {33, 65281}})
            exclamAmp == QMin(Q(1, 2), QMul(QInt(exclam), Q(5, 100)))
            amp == QAdd(QInt(1), exclamAmp)
            bonus == IF relationBoost THEN RelationBonus(t) ELSE QZero
            acc0 ==
              [raw     |-> [ZeroScores EXCEPT !["affection"] = bonus],
               details |-> [c \in Category |->
                              IF c = "affection" /\ bonus # QZero
                              THEN (RELATION_META :> bonus) ELSE <<>>]]
            acc1 == RouteAll(acc0, CategoryLoop(t, lexicon, 1), 1)
            raw2 == [c \in Category |-> QAdd(acc1.raw[c], baseEmojiBoost(t, c))]
            len == IF Len(t) > 60 THEN Len(t) ELSE 60
            lengthNorm == QMax(Q(7, 10), QMin(QInt(1), Q(180, len)))
            raw == [c \in Category |-> QMul(raw2[c], QMul(amp, lengthNorm))]
            maxv == QMax(EPS, MaxScore(raw))
        IN  [raw        |-> raw,
             normalized |-> [c \in Category |-> QMul(QDiv(raw[c], maxv), QInt(100))],
             details    |-> acc1.details]

\* a leaders memo that keeps only the first of the tied categories
leadersFirstOnly(text, result) ==
  LET src == result.normalized
      max == MaxScore(src)
      Tied(k) == QLe(QAbs(QSub(src[k], max)), EPS)
  IN  IF Trim(text) = <<>> \/ QLe(max, QZero) THEN <<>>
      ELSE <<SelectSeq(categories, Tied)[1]>>

\* the `leaders` memo: the categories tied for the maximum normalized score
leaders(text, result) ==
  LET src == result.normalized
      max == MaxScore(src)
      Tied(k) == QLe(QAbs(QSub(src[k], max)), EPS)
  IN  IF Trim(text) = <<>> \/ QLe(max, QZero) THEN <<>>
      ELSE SelectSeq(categories, Tied)


\* mutant: no ledger key is held back
ReservedNever(k) == FALSE

\* String(k).startsWith("__")
Reserved(k) == StartsWith(k, <<95, 95>>)

\* the terms topTerms(cat) shows (n = 6) and makeHistItem stores (n = 3): the
\* ledger of the category without the reserved keys, sorted by value, largest
\* first, cut to n entries; terms tied at the cut are all kept, the ledger
\* not holding the order in which its keys were set
topTerms(details, cat, n) ==
  IF cat \notin DOMAIN details THEN {}
  ELSE LET m == details[cat]
           filtered == {k \in DOMAIN m : ~Reserved(k)}
       IN  {k \in filtered :
              Cardinality({j \in filtered : QLt(m[k], m[j])}) < n}

(***************************************************************************)
(* The live view: text, lexicon and relationBoost states with the result   *)
(* and leaders memos recomputed on every change                            *)
(***************************************************************************)
\* mutant: the high pool only for a score of 100
bandExact(score) ==
  IF QLe(QInt(100), score) THEN "high" ELSE IF QLe(QInt(60), score) THEN "mid" ELSE "soft"

\* score >= 85 ? "high" : score >= 60 ? "mid" : "soft"
band(score) ==
  IF QLe(QInt(85), score) THEN "high" ELSE IF QLe(QInt(60), score) THEN "mid" ELSE "soft"

\* commentFor(cat): <<>> for "", else <<the pool the comment is picked from>>,
\* every pool of the comment bank holding a usable comment
commentFor(text, lead, result, cat) ==
  IF Trim(text) = <<>> THEN <<>>
  ELSE IF ~ \E i \in 1 .. Len(lead) : lead[i] = cat THEN <<>>
  ELSE <<band(result.normalized[cat])>>

\* leaders.map(c => ({cat: c, text: commentFor(c)})).filter(x => x.text)
activeComments(text, lead, result) ==
  SelectSeq([i \in 1 .. Len(lead) |->
               [cat |-> lead[i], pool |-> commentFor(text, lead, result, lead[i])]],
            LAMBDA x : x.pool # <<>>)

\* lexicons the app can hold: the default, and lexicons read by importLexiconJSON
Lexicons ==
  << DEFAULT_LEXICON,
     \* an edited lexicon: a lexeme without weight, a three-way lexeme, an
     \* empty categories list, the same term under two categories
     [affection  |-> << [term |-> <<22909, 12365>>, weight |-> Unset, categories |-> Unset] >>,
      longing    |-> << LC(<<20250, 12356, 12383, 12356>>, 24,
                           <<"affection", "longing", "dependence">>),
                        LC(<<28057>>, 10, <<>>) >>,
      sadness    |-> << L(<<28057>>, 5), L(<<22909, 12365>>, 1) >>,
      dependence |-> <<>>,
      desire     |-> << L(<<12354, 12394, 12383>>, 50) >>],
     \* an imported lexicon with a negative weight
     [affection  |-> << L(<<22909, 12365>>, -10) >>,
      longing    |-> << L(<<20250, 12356, 12383, 12356>>, 24) >>,
      sadness    |-> << L(<<28057>>, 0) >>,
      dependence |-> <<>>,
      desire     |-> <<>>],
     \* an imported lexicon with a weight of 0.00001
     [affection  |-> << [term |-> <<22909, 12365>>, weight |-> <<Q(1, 100000)>>,
                         categories |-> Unset] >>,
      longing    |-> <<>>,
      sadness    |-> <<>>,
      dependence |-> <<>>,
      desire     |-> <<>>],
     \* an imported lexicon with the same term under two categories, the
     \* weights 1000001 and 1000000
     [affection  |-> << L(<<22909, 12365>>, 10000010) >>,
      longing    |-> <<>>,
      sadness    |-> << L(<<22909, 12365>>, 10000000) >>,
      dependence |-> <<>>,
      desire     |-> <<>>] >>

\* what precedes the keyword in a sample text
Prefixes ==
  { <<>>,
    <<12392, 12390, 12418>>,                                     \* とても
    <<23569, 12375>>,                                            \* 少し
    <<12392, 12390, 12418, 23569, 12375>>,                       \* とても少し
    <<12392, 12390, 12418, 36229, 32118>>,                       \* とても超絶
    <<23569, 12375, 12420, 12420>>,                              \* 少しやや
    <<12392, 12390, 12418, 12415, 12398, 12371, 12392, 12364>>,  \* とてもみのことが
    <<12392, 12390, 12418, 12365, 12415, 12398, 12371, 12392, 12364>> }
                                                                 \* とてもきみのことが

\* the keyword of a sample text
Cores ==
  { <<22909, 12365>>,                 \* 好き
    <<20250, 12356, 12383, 12356>>,   \* 会いたい
    <<28057>>,                        \* 涙
    <<12354, 12394, 12383>>,          \* あなた
    <<22909, 12365, 22909, 12365>>,   \* 好き好き
    <<97, 98>> }                      \* ab

\* what follows the keyword in a sample text
Suffixes ==
  { <<>>,
    <<12376, 12419, 12394, 12356>>,                        \* じゃない
    <<12391, 12377>>,                                      \* です
    <<12391, 12377, 12369, 12393, 12394, 12356>>,          \* ですけどない
    <<12365, 12415, 12398, 12371, 12392, 12394, 12356>>,   \* きみのことない
    <<33, 65281>>,                                         \* !！
    <<55357, 56866>>,                                      \* 😢
    <<32, 10>> }

BlankTexts == { <<>>, <<32, 10>>, <<12288>> }

SampleTexts ==
  BlankTexts \cup {p \o c \o s : p \in Prefixes, c \in Cores, s \in Suffixes}

\* the memos a render computes from the three states
Render(t, l, b) ==
  /\ aText' = t
  /\ aLex' = l
  /\ aBoost' = b
  /\ aRes' = analyze(t, Lexicons[l], b)
  /\ aTrace' = Occurrences(t, Lexicons[l])
  /\ aLeaders' = leaders(t, analyze(t, Lexicons[l], b))
  /\ aComments' = activeComments(t, leaders(t, analyze(t, Lexicons[l], b)),
                                 analyze(t, Lexicons[l], b))
  /\ UNCHANGED appendVars
  /\ UNCHANGED appVars
  /\ UNCHANGED sideVars

(***************************************************************************)
(* The persisted stores                                                    *)
(***************************************************************************)
\* A JSON value, as JSON.parse returns it, is <<kind, content>>: <<"null", 0>>,
\* <<"number", n>>, <<"string", s>>, <<"array", elements>> or <<"object", f>>
\* with f a function from keys to JSON values; <<"undefined", 0>> is the value
\* of a property that is not there.
\* What localStorage.getItem returns is <<"none", 0>> for null, <<"empty", 0>>
\* for the empty string, <<"garbage", 0>> for a string that is not JSON and
\* <<"json", v>> for the text of the JSON value v.
\* An evaluation that may throw gives <<>> when it throws and <<v>> otherwise.

\* JSON.parse(raw)
JSONparse(raw) == IF raw[1] = "json" THEN <<raw[2]>> ELSE <<>>

\* !raw
Falsy(raw) == raw[1] \in {"none", "empty"}

\* Array.isArray(v)
IsArray(v) == v[1] = "array"

\* (parsed as any)[c]: a TypeError on null, undefined when there is no such property
Member(v, c) ==
  IF v[1] = "null" THEN <<>>
  ELSE IF v[1] = "object" /\ c \in DOMAIN v[2] THEN <<v[2][c]>>
  ELSE << <<"undefined", 0>> >>

\* a load that returns the built-in default object of its store
BuiltIn == <<"default", 0>>

\* the for loop of loadLexicon from category i on: returns DEFAULT_LEXICON, throws,
\* or falls through to return parsed
RECURSIVE LexiconKeysFrom(_, _)
LexiconKeysFrom(parsed, i) ==
  IF i > Len(categories) THEN <<parsed>>
  ELSE LET m == Member(parsed, categories[i])
       IN  IF m = <<>> THEN <<>>
           ELSE IF ~IsArray(m[1]) THEN <<BuiltIn>>
           ELSE LexiconKeysFrom(parsed, i + 1)

loadLexicon(raw) ==
  LET try == IF Falsy(raw) THEN <<BuiltIn>>
             ELSE LET parsed == JSONparse(raw)
                  IN  IF parsed = <<>> THEN <<>>
                      ELSE LexiconKeysFrom(parsed[1], 1)
  IN  IF try = <<>> THEN BuiltIn ELSE try[1]

\* the default of loadHistory is a new empty array
loadHistory(raw) ==
  LET try == IF Falsy(raw) THEN << <<"array", <<>>>> >>
             ELSE LET arr == JSONparse(raw)
                  IN  IF arr = <<>> THEN <<>>
                      ELSE IF IsArray(arr[1]) THEN <<arr[1]>>
                      ELSE << <<"array", <<>>>> >>
  IN  IF try = <<>> THEN <<"array", <<>>>> ELSE try[1]

loadGrowth(raw) ==
  LET try == IF Falsy(raw) THEN <<BuiltIn>>
             ELSE LET parsed == JSONparse(raw)
                  IN  IF parsed = <<>> THEN <<>> ELSE <<parsed[1]>>
  IN  IF try = <<>> THEN BuiltIn ELSE try[1]

\* nothing stored under any of the three keys
NoStorage ==
  [lexicon |-> <<"none", 0>>, history |-> <<"none", 0>>, growth |-> <<"none", 0>>]

\* the stores are not in use
LoadIdle ==
  /\ storage = NoStorage
  /\ loaded = <<>>

\* the save data of a pet that was never fed
DEFAULT_SAVE ==
  [stats |-> [c \in Category |-> 0], total |-> 0, forms |-> <<[teen |-> <<>>, adult |-> <<>>]>>]

\* the pet is not in use
PetIdle ==
  /\ pet = <<>>
  /\ petSaved = DEFAULT_SAVE
  /\ feedLog = {}
  /\ latest = 1
  /\ lastStageRef = "egg"

\* no function has been applied on its own, and the pet is not in use
OtherIdle == hashed = <<>> /\ PetIdle /\ scan = <<>>

\* no timeout is scheduled
TimerIdle ==
  /\ timers = {}
  /\ timerRef = 0
  /\ clock = [now |-> 0, keyAt |-> 0, ids |-> 0]

\* appendWithLimit is not in use
AppendIdle ==
  /\ apList = <<>>
  /\ apListAll = <<>>
  /\ apHashSet = {}
  /\ apMax = 0
  /\ apCall = <<>>
  /\ apClock = 0

\* the history store is not in use
HistoryIdle ==
  /\ hText = <<>>
  /\ history = <<>>
  /\ stored = <<>>
  /\ lastSavedHash = <<>>
  /\ saveTimer = <<>>
  /\ now = 0
  /\ toast = <<>>
  /\ lastCommit = <<>>
  /\ sessionAppends = 0
  /\ mounted = FALSE
  /\ showHistExport = FALSE
  /\ histExportText = <<>>
  /\ alerted = <<>>
  /\ historyHashSet = {}
  /\ LoadIdle
  /\ TimerIdle

AppIdle == HistoryIdle /\ OtherIdle

\* the live view is not in use
AnalysisIdle ==
  /\ aText = <<>>
  /\ aLex = 1
  /\ aBoost = TRUE
  /\ aRes = [raw |-> ZeroScores, normalized |-> ZeroScores, details |-> <<>>]
  /\ aTrace = <<>>
  /\ aLeaders = <<>>
  /\ aComments = <<>>

AnalysisInit ==
  /\ AppendIdle
  /\ AppIdle
  /\ aText = <<>>
  /\ aLex = 1
  /\ aBoost = TRUE
  /\ aRes = analyze(<<>>, DEFAULT_LEXICON, TRUE)
  /\ aTrace = <<>>
  /\ aLeaders = <<>>
  /\ aComments = <<>>

\* textarea onChange: setText(e.target.value)
SetText ==
  /\ aText = <<>>
  /\ \E t \in SampleTexts \ {<<>>} : Render(t, aLex, aBoost)

\* the relation boost checkbox: setRelationBoost(e.target.checked)
SetRelationBoost == Render(aText, aLex, ~aBoost)

\* importLexiconJSON / resetLexicon: setLexicon(parsed)
SetLexicon == \E l \in 1 .. Len(Lexicons) : l # aLex /\ Render(aText, l, aBoost)

AnalysisNext == SetText \/ SetRelationBoost \/ SetLexicon

SpecAnalyze == AnalysisInit /\ [][AnalysisNext]_vars

(***************************************************************************)
(* The content hasher                                                      *)
(***************************************************************************)
\* a 32-bit word is <<hi, lo>>, two 16-bit halves

\* one step of the loop: h = ((h << 5) - h + code) | 0, on the unsigned word
HashStep(h, code) ==
  LET lo == 31 * h[2] + code
      hi == 31 * h[1] + (lo \div 65536)
  IN  <<hi % 65536, lo % 65536>>

RECURSIVE HashFrom(_, _, _)
HashFrom(h, s, i) ==
  IF i > Len(s) THEN h ELSE HashFrom(HashStep(h, s[i]), s, i + 1)

\* Math.abs of the signed reading of a word; 2^31 is <<32768, 0>>
AbsWord(h) ==
  IF h[1] < 32768 THEN h
  ELSE IF h[2] = 0 THEN <<(65536 - h[1]) % 65536, 0>>
  ELSE <<65535 - h[1], 65536 - h[2]>>

simpleHash(s) == AbsWord(HashFrom(<<0, 0>>, s, 1))

\* the code unit of a base-36 digit
Digit36(d) == IF d < 10 THEN 48 + d ELSE 87 + d

RECURSIVE Digits36(_)
Digits36(w) ==
  IF w = <<0, 0>> THEN <<>>
  ELSE LET t == (w[1] % 36) * 65536 + w[2]
       IN  Digits36(<<w[1] \div 36, t \div 36>>) \o <<Digit36(t % 36)>>

\* Number.prototype.toString(36) of a non-negative word
ToString36(w) == IF w = <<0, 0>> THEN <<48>> ELSE Digits36(w)

hashBase36(s) == ToString36(simpleHash(s))

\* h << 5 of a 32-bit word
ShiftLeft5(h) ==
  LET lo == 32 * h[2]
      hi == 32 * h[1] + (lo \div 65536)
  IN  <<hi % 65536, lo % 65536>>

\* (a - b + code) | 0: the difference and the sum are exact in a double, so
\* only the wrap to 32 bits of `| 0` loses anything
MinusPlusWrap(a, b, code) ==
  LET lo == a[2] - b[2] + code
      hi == a[1] - b[1] + (IF lo < 0 THEN -1 ELSE lo \div 65536)
  IN  <<hi % 65536, lo % 65536>>

RECURSIVE HashFrom_part001(_, _, _)
HashFrom_part001(h, s, i) ==
  IF i > Len(s) THEN h
  ELSE HashFrom_part001(MinusPlusWrap(ShiftLeft5(h), h, s[i]), s, i + 1)

\* mutant: the hash without Math.abs
simpleHashSigned(s) == HashFrom_part001(<<0, 0>>, s, 1)

\* simpleHash as src/unnamed/part_001 writes it: h = (h << 5) - h + code; h |= 0
simpleHash_part001(s) == AbsWord(HashFrom_part001(<<0, 0>>, s, 1))

\* the strings hashed: up to MaxHashLen of these code units
MaxHashLen == 7
HashUnits == {97, 12354, 65535}

HashFrame ==
  /\ UNCHANGED <<petVars, scan>>
  /\ UNCHANGED analysisVars
  /\ UNCHANGED appendVars
  /\ UNCHANGED appVars
  /\ UNCHANGED <<mounted, showHistExport, histExportText, alerted, historyHashSet,
                 storage, loaded, timers, timerRef, clock>>

HashInit == AnalysisIdle /\ AppendIdle /\ AppIdle

\* both simpleHash functions applied to a string
HashRun(s) ==
  hashed' = <<[s |-> s, app1 |-> simpleHash(s), part001 |-> simpleHash_part001(s)]>>

HashEmpty == hashed = <<>> /\ HashRun(<<>>) /\ HashFrame

HashLonger ==
  /\ hashed # <<>>
  /\ Len(hashed[1].s) < MaxHashLen
  /\ \E c \in HashUnits : HashRun(hashed[1].s \o <<c>>)
  /\ HashFrame

HashNext == HashEmpty \/ HashLonger

SpecHash == HashInit /\ [][HashNext]_vars

(***************************************************************************)
(* appendWithLimit                                                         *)
(***************************************************************************)
\* the retention cap and the dedup window, scaled down from 500 and 10
HistoryMax == 2
RecentWindow == 1

\* the last n elements: Array.prototype.slice(-n)
LastN(list, n) ==
  IF Len(list) <= n THEN list ELSE SubSeq(list, Len(list) - n + 1, Len(list))

\* mutant: findIndex finds nothing
FirstUnpinnedNone(list) == 0

\* next.findIndex(it => !it.pinned), 1-based, 0 when there is none
FirstUnpinned(list) ==
  LET un == {i \in 1 .. Len(list) : ~list[i].pinned}
  IN  IF un = {} THEN 0 ELSE MinOf(un)

\* next.splice(idx, 1)
RemoveAt(list, idx) == SubSeq(list, 1, idx - 1) \o SubSeq(list, idx + 1, Len(list))

\* mutant: the eviction takes the oldest item, pinned or not
EvictOldest(next, max) ==
  IF Len(next) > max THEN SubSeq(next, Len(next) - max + 1, Len(next)) ELSE next

\* while (next.length > max) { remove the first unpinned item, or stop }
RECURSIVE Evict(_, _)
Evict(next, max) ==
  IF Len(next) > max /\ FirstUnpinned(next) # 0
  THEN Evict(RemoveAt(next, FirstUnpinned(next)), max)
  ELSE next

\* the recent-window variant; same = TRUE when the existing array itself is returned
appendWithLimit(existing, draft, max) ==
  LET h == hashBase36(draft.full)
      recent == LastN(existing, RecentWindow)
  IN  IF \E i \in 1 .. Len(recent) : hashBase36(recent[i].full) = h
      THEN [list |-> existing, same |-> TRUE]
      ELSE [list |-> Evict(existing \o <<draft>>, max), same |-> FALSE]

\* the hashes hashSet.delete removes in the whole-history variant's loop
RECURSIVE EvictedHashes(_, _)
EvictedHashes(next, max) ==
  IF Len(next) > max /\ FirstUnpinned(next) # 0
  THEN <<hashBase36(next[FirstUnpinned(next)].full)>>
         \o EvictedHashes(RemoveAt(next, FirstUnpinned(next)), max)
  ELSE <<>>

\* the whole-history variant: the list returned and the hashSet as it leaves it
appendWithLimitAll(existing, draft, max, hashSet) ==
  LET h == hashBase36(draft.full)
      gone == EvictedHashes(existing \o <<draft>>, max)
  IN  IF h \in hashSet
      THEN [list |-> existing, same |-> TRUE, hashSet |-> hashSet]
      ELSE [list    |-> Evict(existing \o <<draft>>, max),
            same    |-> FALSE,
            hashSet |-> (hashSet \cup {h}) \ {gone[i] : i \in 1 .. Len(gone)}]

(***************************************************************************)
(* appendWithLimit applied over and over                                   *)
(***************************************************************************)
MaxCalls == 4

\* full texts of the drafts
DraftTexts ==
  { <<12354, 12394, 12383, 12395, 20250, 12356, 12383, 12356, 27671, 25345,
      12385, 12391, 12377>>,                          \* あなたに会いたい気持ちです
    <<12392, 12390, 12418, 22909, 12365, 12391, 12377, 28057, 12364, 12391,
      12427, 12367, 12425, 12356>>,                   \* とても好きです涙がでるくらい
    <<22909, 12365>>,                                 \* 好き
    <<65, 97, 65, 97, 65, 97, 65, 97, 65, 97>>,       \* AaAaAaAaAa
    <<66, 66, 66, 66, 66, 66, 66, 66, 66, 66>> }      \* BBBBBBBBBB

AppendInit ==
  /\ AnalysisIdle
  /\ AppIdle
  /\ apList = <<>>
  /\ apListAll = <<>>
  /\ apHashSet = {}
  /\ apMax \in 0 .. HistoryMax
  /\ apCall = <<>>
  /\ apClock = 0

\* one call of each variant with the same draft
AppendCall ==
  /\ apClock < MaxCalls
  /\ \E full \in DraftTexts, pinned \in BOOLEAN :
       LET draft == [id |-> apClock + 1, full |-> full, pinned |-> pinned]
           r == appendWithLimit(apList, draft, apMax)
           rAll == appendWithLimitAll(apListAll, draft, apMax, apHashSet)
       IN  /\ apList' = r.list
           /\ apListAll' = rAll.list
           /\ apHashSet' = rAll.hashSet
           /\ apCall' = << [existing    |-> apList,
                            existingAll |-> apListAll,
                            draft       |-> draft,
                            same        |-> r.same,
                            sameAll     |-> rAll.same] >>
  /\ apClock' = apClock + 1
  /\ UNCHANGED <<apMax>>
  /\ UNCHANGED analysisVars
  /\ UNCHANGED appVars
  /\ UNCHANGED sideVars

\* the pinned flag of one stored item is flipped between calls
AppendTogglePin ==
  /\ \E id \in {apList[i].id : i \in 1 .. Len(apList)}
            \cup {apListAll[i].id : i \in 1 .. Len(apListAll)} :
       /\ apList' = [i \in 1 .. Len(apList) |->
                       IF apList[i].id = id
                       THEN [apList[i] EXCEPT !.pinned = ~@] ELSE apList[i]]
       /\ apListAll' = [i \in 1 .. Len(apListAll) |->
                          IF apListAll[i].id = id
                          THEN [apListAll[i] EXCEPT !.pinned = ~@] ELSE apListAll[i]]
  /\ apCall' = <<>>
  /\ UNCHANGED <<apHashSet, apMax, apClock>>
  /\ UNCHANGED analysisVars
  /\ UNCHANGED appVars
  /\ UNCHANGED sideVars

AppendNext == AppendCall \/ AppendTogglePin

SpecAppend == AppendInit /\ [][AppendNext]_vars

IdsOf(list) == {list[i].id : i \in 1 .. Len(list)}

(***************************************************************************)
(* The app: the text area, the debounce timer and the history store        *)
(***************************************************************************)
HISTORY_MIN_CHARS == 10

\* the number of history items one session builds
MaxClock == 4

\* the number NaN, which no fraction n/d with d > 0 is
NaN == <<0, 0>>

\* Math.round(n * 10) / 10
round1(n) ==
  IF n = NaN THEN NaN
  ELSE LET h == QAdd(QMul(n, QInt(10)), Q(1, 2))
       IN  Q(h[1] \div h[2], 10)

\* the item built from a text at a time; top, ver and lex are left out, and a
\* missing pinned field reads as false
makeHistItem(txt, analysis, lead, at) ==
  LET clean == Trim(txt)
      full == Slice(clean, 0, 1000)
  IN  [id     |-> <<at, hashBase36(full)>>,
       ts     |-> at,
       snip   |-> Slice(clean, 0, 120),
       full   |-> full,
       norm   |-> [i \in 1 .. Len(categories) |-> round1(analysis.normalized[categories[i]])],
       lead   |-> lead,
       pinned |-> FALSE]

\* what the text area can hold
TextA ==
  <<12354, 12394, 12383, 12395, 20250, 12356, 12383, 12356, 27671, 25345,
    12385, 12391, 12377>>                             \* あなたに会いたい気持ちです
TextB ==
  <<12392, 12390, 12418, 22909, 12365, 12391, 12377, 28057, 12364, 12391,
    12427, 12367, 12425, 12356>>                      \* とても好きです涙がでるくらい
TextShort == <<22909, 12365>>                         \* 好き

AppTexts == {<<>>, TextShort, TextA, TextA \o <<10>>, TextB}

\* the item commitHistory builds for each text, under the default lexicon with
\* relationBoost on
DraftOf ==
  [t \in AppTexts |->
     LET clean == Trim(t)
         localResult == analyze(clean, DEFAULT_LEXICON, TRUE)
     IN  makeHistItem(clean, localResult, leaders(clean, localResult), 0)]

\* an imported lexicon in which the weight of 涙 is not a number, so that the
\* delta weight * factor of its occurrences is NaN
AppLexicons ==
  << DEFAULT_LEXICON,
     [DEFAULT_LEXICON EXCEPT !.sadness =
        [i \in 1 .. Len(@) |->
           IF @[i].term = <<28057>> THEN [@[i] EXCEPT !.weight = <<NaN>>] ELSE @[i]]] >>

\* some occurrence in the text has a NaN delta under this lexicon
NaNDelta(t, lexicon) ==
  \E c \in Category : \E i \in 1 .. Len(lexicon[c]) :
    /\ lexicon[c][i].weight = <<NaN>>
    /\ countSubstringIndices(Trim(t), lexicon[c][i].term) # <<>>

\* the item built at a time under the lexicon in use, aLex counting in
\* AppLexicons: an occurrence with a NaN delta makes a raw score NaN, then maxv
\* and every normalized score NaN, and max <= 0 and every comparison with max
\* false, so that there is no leader
DraftAt(t, at) ==
  IF NaNDelta(t, AppLexicons[aLex])
  THEN makeHistItem(Trim(t), [normalized |-> [c \in Category |-> NaN]], <<>>, at)
  ELSE [DraftOf[t] EXCEPT !.id = <<at, @[2]>>, !.ts = at]

\* JSON.stringify of a list of items, as text: NaN is written as null, which
\* parses to null, <<>> here
JSONstringify(items) ==
  <<"json",
    <<"array",
      [i \in 1 .. Len(items) |->
         [items[i] EXCEPT !.norm = [j \in 1 .. Len(@) |->
                                      IF @[j] = NaN THEN <<>> ELSE @[j]]]]>>>>

\* what saveHistory(items) leaves under HISTORY_KEY, parsed
Saved(items) == JSONstringify(items)[2][2]

\* loadHistory and the mount effect, with nothing stored yet
Init ==
  /\ AnalysisIdle
  /\ AppendIdle
  /\ stored = <<>>
  /\ history = stored
  /\ lastSavedHash = IF Len(stored) > 0
                     THEN hashBase36(stored[Len(stored)].full) ELSE <<>>
  /\ hText = <<>>
  /\ saveTimer = <<>>
  /\ now = 1
  /\ toast = <<>>
  /\ lastCommit = <<>>
  /\ sessionAppends = 0
  /\ mounted = TRUE
  /\ showHistExport = FALSE
  /\ histExportText = <<>>
  /\ alerted = <<>>
  /\ historyHashSet = {}
  /\ LoadIdle
  /\ TimerIdle
  /\ OtherIdle

\* mutant: the guard never matches
GuardNever(h) == FALSE

\* lastSavedHashRef.current === h
GuardHit(h) == lastSavedHash = h

\* the call before this one was of the same text, appended it, and no bulk clear
\* came since
Repeats(full) ==
  /\ lastCommit # <<>>
  /\ lastCommit[1].full = full
  /\ lastCommit[1].appended
  /\ ~lastCommit[1].cleared

\* mutant: no length check
TooShortNever(clean) == FALSE

\* clean.length < HISTORY_MIN_CHARS
TooShort(clean) == Len(clean) < HISTORY_MIN_CHARS

\* commitHistory as the callback of a render that saw txt and hist
commitHistory(txt, hist) ==
  LET clean == Trim(txt)
      full == Slice(clean, 0, 1000)
      h == hashBase36(full)
      r == appendWithLimit(hist, DraftAt(txt, now), HistoryMax)
  IN  IF TooShort(clean)
      THEN UNCHANGED <<history, stored, lastSavedHash, now, lastCommit, sessionAppends>>
      ELSE IF GuardHit(h) \/ r.same
      THEN /\ lastCommit' = << [full |-> full, appended |-> FALSE, cleared |-> FALSE,
                              again |-> Repeats(full)] >>
           /\ UNCHANGED <<history, stored, lastSavedHash, now, sessionAppends>>
      ELSE /\ now < MaxClock
           /\ history' = r.list
           /\ stored' = Saved(r.list)
           /\ lastSavedHash' = h
           /\ now' = now + 1
           /\ lastCommit' = << [full |-> full, appended |-> TRUE, cleared |-> FALSE,
                              again |-> Repeats(full)] >>
           /\ sessionAppends' = sessionAppends + 1

\* textarea onChange: the timer is replaced by one that runs the commitHistory
\* of the render the handler belongs to
Keystroke ==
  /\ mounted
  /\ \E v \in AppTexts \ {hText} : hText' = v
  /\ saveTimer' = << [text |-> hText, history |-> history] >>
  /\ sessionAppends' = 0
  /\ UNCHANGED <<history, stored, lastSavedHash, now, toast, lastCommit>>
  /\ UNCHANGED analysisVars
  /\ UNCHANGED appendVars
  /\ UNCHANGED sideVars

\* the pending timer fires
DebounceFire ==
  /\ mounted
  /\ saveTimer # <<>>
  /\ commitHistory(saveTimer[1].text, saveTimer[1].history)
  /\ saveTimer' = <<>>
  /\ UNCHANGED <<hText, toast>>
  /\ UNCHANGED analysisVars
  /\ UNCHANGED appendVars
  /\ UNCHANGED sideVars

\* textarea onBlur
Blur ==
  /\ mounted
  /\ commitHistory(hText, history)
  /\ UNCHANGED <<hText, saveTimer, toast>>
  /\ UNCHANGED analysisVars
  /\ UNCHANGED appendVars
  /\ UNCHANGED sideVars

resetAll ==
  /\ mounted
  /\ hText # <<>>
  /\ hText' = <<>>
  /\ sessionAppends' = 0
  /\ UNCHANGED <<history, stored, lastSavedHash, saveTimer, now, toast, lastCommit>>
  /\ UNCHANGED analysisVars
  /\ UNCHANGED appendVars
  /\ UNCHANGED sideVars

restoreFromHistory ==
  /\ mounted
  /\ \E i \in 1 .. Len(history) :
       /\ hText # history[i].full
       /\ hText' = history[i].full
  /\ sessionAppends' = 0
  /\ UNCHANGED <<history, stored, lastSavedHash, saveTimer, now, toast, lastCommit>>
  /\ UNCHANGED analysisVars
  /\ UNCHANGED appendVars
  /\ UNCHANGED sideVars

togglePinHistory ==
  /\ mounted
  /\ \E id \in IdsOf(history) :
       LET next == [i \in 1 .. Len(history) |->
                      IF history[i].id = id
                      THEN [history[i] EXCEPT !.pinned = ~@] ELSE history[i]]
       IN  /\ history' = next
           /\ stored' = Saved(next)
  /\ sessionAppends' = 0
  /\ UNCHANGED <<hText, lastSavedHash, saveTimer, now, toast, lastCommit>>
  /\ UNCHANGED analysisVars
  /\ UNCHANGED appendVars
  /\ UNCHANGED sideVars

\* the delete button of the item with this id: a pinned target is refused with
\* a toast
deleteHistoryItemOf(id) ==
  /\ mounted
  /\ id \in IdsOf(history)
  /\ LET target == CHOOSE i \in 1 .. Len(history) : history[i].id = id
         next == SelectSeq(history, LAMBDA it : it.id # id)
     IN  IF history[target].pinned
         THEN /\ toast' = <<"warn">>
              /\ UNCHANGED <<history, stored>>
         ELSE /\ history' = next
              /\ stored' = Saved(next)
              /\ UNCHANGED toast
  /\ sessionAppends' = 0
  /\ UNCHANGED <<hText, lastSavedHash, saveTimer, now, lastCommit>>
  /\ UNCHANGED analysisVars
  /\ UNCHANGED appendVars
  /\ UNCHANGED sideVars

deleteHistoryItem == \E id \in IdsOf(history) : deleteHistoryItemOf(id)

\* the confirm dialog was accepted
clearAllHistory ==
  /\ mounted
  /\ LET kept == SelectSeq(history, LAMBDA it : it.pinned)
     IN  /\ history' = kept
         /\ stored' = Saved(kept)
  /\ lastSavedHash' = <<>>
  /\ lastCommit' = IF lastCommit = <<>> THEN <<>>
                    ELSE << [lastCommit[1] EXCEPT !.cleared = TRUE] >>
  /\ toast' = <<"ok">>
  /\ sessionAppends' = 0
  /\ UNCHANGED <<hText, saveTimer, now>>
  /\ UNCHANGED analysisVars
  /\ UNCHANGED appendVars
  /\ UNCHANGED sideVars

\* the toast is taken down 2.2 s after it was set
ToastTimeout ==
  /\ mounted
  /\ toast # <<>>
  /\ toast' = <<>>
  /\ UNCHANGED <<hText, history, stored, lastSavedHash, saveTimer, now, lastCommit,
                 sessionAppends>>
  /\ UNCHANGED analysisVars
  /\ UNCHANGED appendVars
  /\ UNCHANGED sideVars

Next ==
  \/ Keystroke
  \/ DebounceFire
  \/ Blur
  \/ resetAll
  \/ restoreFromHistory
  \/ togglePinHistory
  \/ deleteHistoryItem
  \/ clearAllHistory
  \/ ToastTimeout

Spec == Init /\ [][Next]_vars

(***************************************************************************)
(* The whole-history variant of the app: the history store of App1.tsx     *)
(***************************************************************************)
\* what localStorage holds when the app is mounted
App1Stores ==
  { <<>>,
    << [DraftAt(TextB, 0) EXCEPT !.pinned = TRUE] >> }

HashesOf(list) == {hashBase36(list[i].full) : i \in 1 .. Len(list)}

\* loadHistory and the mount effect
App1Init ==
  /\ AnalysisIdle
  /\ AppendIdle
  /\ stored \in App1Stores
  /\ history = stored
  /\ historyHashSet = HashesOf(stored)
  /\ lastSavedHash = IF Len(stored) > 0
                     THEN hashBase36(stored[Len(stored)].full) ELSE <<>>
  /\ hText = <<>>
  /\ saveTimer = <<>>
  /\ now = 1
  /\ toast = <<>>
  /\ lastCommit = <<>>
  /\ sessionAppends = 0
  /\ mounted = TRUE
  /\ showHistExport = FALSE
  /\ histExportText = <<>>
  /\ alerted = <<>>
  /\ LoadIdle
  /\ TimerIdle
  /\ OtherIdle

\* what the handlers of this variant never touch
App1Frame ==
  /\ UNCHANGED otherVars
  /\ UNCHANGED <<saveTimer, toast, lastCommit, sessionAppends>>
  /\ UNCHANGED <<mounted, showHistExport, histExportText, alerted>>
  /\ UNCHANGED <<storage, loaded, timers, timerRef, clock>>
  /\ UNCHANGED analysisVars
  /\ UNCHANGED appendVars

App1_setText ==
  /\ \E v \in AppTexts \ {hText} : hText' = v
  /\ UNCHANGED <<history, stored, lastSavedHash, now, historyHashSet>>
  /\ App1Frame

\* commitHistory as the callback of the current render
App1_commitHistory ==
  /\ LET clean == Trim(hText)
         full == Slice(clean, 0, 1000)
         h == hashBase36(full)
         r == appendWithLimitAll(history, DraftAt(hText, now), HistoryMax, historyHashSet)
     IN  IF clean = <<>> \/ lastSavedHash = h
         THEN UNCHANGED <<history, stored, lastSavedHash, now, historyHashSet>>
         ELSE IF r.same
         THEN UNCHANGED <<history, stored, lastSavedHash, now, historyHashSet>>
         ELSE /\ now < MaxClock
              /\ history' = r.list
              /\ stored' = Saved(r.list)
              /\ historyHashSet' = r.hashSet
              /\ lastSavedHash' = h
              /\ now' = now + 1
  /\ UNCHANGED hText
  /\ App1Frame

App1_togglePinHistory ==
  /\ \E id \in IdsOf(history) :
       LET next == [i \in 1 .. Len(history) |->
                      IF history[i].id = id
                      THEN [history[i] EXCEPT !.pinned = ~@] ELSE history[i]]
       IN  /\ history' = next
           /\ stored' = Saved(next)
  /\ UNCHANGED <<hText, lastSavedHash, now, historyHashSet>>
  /\ App1Frame

\* the delete button of the item with this id
App1_deleteHistoryItemOf(id) ==
  /\ id \in IdsOf(history)
  /\ LET next == SelectSeq(history, LAMBDA it : it.id # id)
         deleted == history[CHOOSE i \in 1 .. Len(history) : history[i].id = id]
     IN  /\ historyHashSet' = historyHashSet \ {hashBase36(deleted.full)}
         /\ history' = next
         /\ stored' = Saved(next)
  /\ UNCHANGED <<hText, lastSavedHash, now>>
  /\ App1Frame

App1_deleteHistoryItem == \E id \in IdsOf(history) : App1_deleteHistoryItemOf(id)

\* the confirm dialog was accepted
App1_clearAllHistory ==
  /\ stored' = <<>>
  /\ history' = <<>>
  /\ historyHashSet' = {}
  /\ lastSavedHash' = <<>>
  /\ UNCHANGED <<hText, now>>
  /\ App1Frame


(***************************************************************************)
(* Properties of appendWithLimit                                           *)
(***************************************************************************)
RECURSIVE Without(_, _, _)
\* the list without the items at the indices of Rm, from index i on
Without(list, Rm, i) ==
  IF i > Len(list) THEN <<>>
  ELSE (IF i \in Rm THEN <<>> ELSE <<list[i]>>) \o Without(list, Rm, i + 1)

\* result is next with exactly the lowest-index unpinned items removed, as many
\* as the excess over max asks for and the unpinned items allow
EvictsOldestUnpinned(next, result, max) ==
  LET Rm == {i \in 1 .. Len(next) : next[i].id \notin IdsOf(result)}
      unpinned == {i \in 1 .. Len(next) : ~next[i].pinned}
      excess == IF Len(next) > max THEN Len(next) - max ELSE 0
  IN  /\ result = Without(next, Rm, 1)
      /\ \A i \in Rm : ~next[i].pinned
      /\ \A i \in Rm : \A j \in unpinned : j < i => j \in Rm
      /\ Cardinality(Rm)
           = (IF Cardinality(unpinned) < excess THEN Cardinality(unpinned) ELSE excess)

\* C3: an append over the cap removes the oldest unpinned items first, keeps the
\* order of the rest and never removes a pinned item, call after call, in both
\* variants of appendWithLimit
C3_EvictsOldestUnpinnedFirst ==
  apCall # <<>> =>
    LET c == apCall[1]
    IN  /\ c.same => apList = c.existing
        /\ ~c.same =>
             EvictsOldestUnpinned(c.existing \o <<c.draft>>, apList, apMax)
        /\ c.sameAll => apListAll = c.existingAll
        /\ ~c.sameAll =>
             EvictsOldestUnpinned(c.existingAll \o <<c.draft>>, apListAll, apMax)

\* C3 witness: an overflow after earlier overflows, where the oldest item is
\* pinned and stays while a younger unpinned item is removed
C3_Witness ==
  /\ apCall # <<>>
  /\ apMax >= 1
  /\ apClock >= apMax + 2
  /\ ~apCall[1].same
  /\ Len(apCall[1].existing) >= apMax
  /\ apCall[1].existing[1].pinned
  /\ apList[1] = apCall[1].existing[1]
  /\ \E i \in 2 .. Len(apCall[1].existing) :
       apCall[1].existing[i].id \notin IdsOf(apList)
  /\ ~apCall[1].sameAll
  /\ Len(apCall[1].existingAll) >= apMax
  /\ apCall[1].existingAll[1].pinned
  /\ \E i \in 2 .. Len(apCall[1].existingAll) :
       apCall[1].existingAll[i].id \notin IdsOf(apListAll)

(***************************************************************************)
(* Export and import of the history                                        *)
(***************************************************************************)
\* files chosen in the import dialog: texts that are not JSON or not an array,
\* arrays with an element that has no ts, and arrays of items written by hand,
\* one of them with as many items as the cap, all pinned
ImportFiles ==
  LET item == [id |-> <<9, <<1>>>>, ts |-> 9, snip |-> TextA, full |-> TextA,
               norm |-> <<<<100, 1>>, <<333, 10>>, <<0, 1>>, <<0, 1>>, <<0, 1>>>>,
               lead |-> <<"affection">>, pinned |-> FALSE]
      pinned == [id |-> <<8, <<2>>>>, ts |-> 8, snip |-> TextB, full |-> TextB,
                 norm |-> <<<<100, 1>>, <<0, 1>>, <<100, 1>>, <<0, 1>>, <<0, 1>>>>,
                 lead |-> <<"affection", "sadness">>, pinned |-> TRUE]
      other == [id |-> <<7, <<3>>>>, ts |-> 7, snip |-> TextShort, full |-> TextShort,
                norm |-> <<<<100, 1>>, <<0, 1>>, <<0, 1>>, <<0, 1>>, <<0, 1>>>>,
                lead |-> <<"affection">>, pinned |-> TRUE]
      noTs == [k \in DOMAIN item \ {"ts"} |-> item[k]]
  IN  { <<"garbage", 0>>,
        <<"json", <<"null", 0>>>>,
        <<"json", <<"object", <<>>>>>>,
        <<"json", <<"array", <<noTs>>>>>>,
        <<"json", <<"array", <<item, noTs>>>>>>,
        <<"json", <<"array", <<>>>>>>,
        <<"json", <<"array", <<pinned, item>>>>>>,
        <<"json", <<"array", <<pinned, other>>>>>> }

\* mutant: every element passes
ItemShapeAny(x) == TRUE

\* x && typeof x.id === "string" && typeof x.ts === "string" && typeof x.full === "string"
ItemShape(x) == {"id", "ts", "full"} \subseteq DOMAIN x

StoreFrame ==
  /\ UNCHANGED otherVars
  /\ UNCHANGED <<hText, lastSavedHash, saveTimer, now, toast, lastCommit>>
  /\ UNCHANGED <<mounted, historyHashSet, storage, loaded, timers, timerRef, clock>>
  /\ UNCHANGED analysisVars
  /\ UNCHANGED appendVars

\* the export button
doExportHistory ==
  /\ mounted
  /\ histExportText' = JSONstringify(history)
  /\ showHistExport' = TRUE
  /\ sessionAppends' = 0
  /\ UNCHANGED <<history, stored, alerted>>
  /\ StoreFrame

\* reader.onload of the import input, for a file with this text
handleImportHistoryInputOf(file) ==
  /\ mounted
  /\ LET parsed == JSONparse(file)
         ok == /\ parsed # <<>>
               /\ IsArray(parsed[1])
               /\ \A i \in 1 .. Len(parsed[1][2]) : ItemShape(parsed[1][2][i])
     IN  IF ok
         THEN /\ history' = parsed[1][2]
              /\ stored' = Saved(parsed[1][2])
              /\ alerted' = <<>>
         ELSE /\ alerted' = <<"import">>
              /\ UNCHANGED <<history, stored>>
  /\ sessionAppends' = 0
  /\ UNCHANGED <<showHistExport, histExportText>>
  /\ StoreFrame

\* a file from the dialog, or the text the export dialog shows saved as a file
handleImportHistoryInput ==
  \E file \in ImportFiles \cup (IF showHistExport THEN {histExportText} ELSE {}) :
    handleImportHistoryInputOf(file)

\* the app mounted with nothing under HISTORY_KEY and with either lexicon
StoreInit ==
  /\ aText = <<>>
  /\ aLex \in 1 .. Len(AppLexicons)
  /\ aBoost = TRUE
  /\ aRes = [raw |-> ZeroScores, normalized |-> ZeroScores, details |-> <<>>]
  /\ aTrace = <<>>
  /\ aLeaders = <<>>
  /\ aComments = <<>>
  /\ AppendIdle
  /\ stored = <<>>
  /\ history = stored
  /\ lastSavedHash = <<>>
  /\ hText = <<>>
  /\ saveTimer = <<>>
  /\ now = 1
  /\ toast = <<>>
  /\ lastCommit = <<>>
  /\ sessionAppends = 0
  /\ mounted = TRUE
  /\ showHistExport = FALSE
  /\ histExportText = <<>>
  /\ alerted = <<>>
  /\ historyHashSet = {}
  /\ LoadIdle
  /\ TimerIdle
  /\ OtherIdle

StoreNext ==
  \/ restoreFromHistory
  \/ Blur
  \/ togglePinHistory
  \/ doExportHistory
  \/ handleImportHistoryInput

SpecStore == StoreInit /\ [][StoreNext]_vars

(***************************************************************************)
(* The import of the whole-history variant, and its specification          *)
(***************************************************************************)
\* files chosen in the import dialog of this variant: a text that is not
\* JSON, and a history in which one text was committed twice, as the
\* recent-window variant, which keeps its history under the same key, leaves it
App1ImportFiles ==
  LET first == [id |-> <<5, <<1>>>>, ts |-> 5, snip |-> TextA, full |-> TextA,
                norm |-> <<<<100, 1>>, <<333, 10>>, <<0, 1>>, <<0, 1>>, <<0, 1>>>>,
                lead |-> <<"affection">>, pinned |-> FALSE]
  IN  { <<"garbage", 0>>,
        <<"json", <<"array", <<first, [first EXCEPT !.id = <<6, <<1>>>>, !.ts = 6]>>>>>> }

\* reader.onload of the import input of this variant
App1_handleImportHistoryInput ==
  /\ \E file \in App1ImportFiles :
       LET parsed == JSONparse(file)
           ok == /\ parsed # <<>>
                 /\ IsArray(parsed[1])
                 /\ \A i \in 1 .. Len(parsed[1][2]) : ItemShape(parsed[1][2][i])
       IN  IF ok
           THEN /\ history' = parsed[1][2]
                /\ stored' = Saved(parsed[1][2])
                /\ historyHashSet' = HashesOf(parsed[1][2])
                /\ alerted' = <<>>
           ELSE /\ alerted' = <<"import">>
                /\ UNCHANGED <<history, stored, historyHashSet>>
  /\ UNCHANGED <<hText, lastSavedHash, now>>
  /\ UNCHANGED otherVars
  /\ UNCHANGED <<saveTimer, toast, lastCommit, sessionAppends>>
  /\ UNCHANGED <<mounted, showHistExport, histExportText>>
  /\ UNCHANGED <<storage, loaded, timers, timerRef, clock>>
  /\ UNCHANGED analysisVars
  /\ UNCHANGED appendVars

App1Next ==
  \/ App1_setText
  \/ App1_commitHistory
  \/ App1_togglePinHistory
  \/ App1_deleteHistoryItem
  \/ App1_clearAllHistory
  \/ App1_handleImportHistoryInput

SpecApp1 == App1Init /\ [][App1Next]_vars

(***************************************************************************)
(* The debounce timer of the text area                                     *)
(***************************************************************************)
\* HISTORY_SAVE_DEBOUNCE_MS, in ticks
DebounceTicks == 2
MaxTick == 4
MaxKeys == 3

\* mutant: clearTimeout cancels nothing
clearNothing(pending, id) == pending

\* clearTimeout(id): an id that is not pending is ignored
clearTimeout(pending, id) == {t \in pending : t.id # id}

TimerFrame ==
  /\ UNCHANGED otherVars
  /\ UNCHANGED <<showHistExport, histExportText, alerted, historyHashSet>>
  /\ UNCHANGED <<storage, loaded, saveTimer, toast>>
  /\ UNCHANGED analysisVars
  /\ UNCHANGED appendVars

\* textarea onChange: setText, clearTimeout if the ref holds an id, setTimeout
\* with the commitHistory of the render the handler belongs to
TimerKeystroke ==
  /\ mounted
  /\ clock.ids < MaxKeys
  /\ \E v \in AppTexts \ {hText} : hText' = v
  /\ LET id == clock.ids + 1
         kept == IF timerRef # 0 THEN clearTimeout(timers, timerRef) ELSE timers
     IN  /\ timers' = kept \cup {[id |-> id, due |-> clock.now + DebounceTicks,
                                   text |-> hText, history |-> history]}
         /\ timerRef' = id
         /\ clock' = [clock EXCEPT !.keyAt = clock.now, !.ids = id]
  /\ sessionAppends' = 0
  /\ UNCHANGED <<history, stored, lastSavedHash, now, lastCommit, mounted>>
  /\ TimerFrame

\* time passes
Tick ==
  /\ clock.now < MaxTick
  /\ clock' = [clock EXCEPT !.now = @ + 1]
  /\ UNCHANGED <<timers, timerRef, mounted>>
  /\ UNCHANGED <<hText, history, stored, lastSavedHash, now, lastCommit, sessionAppends>>
  /\ TimerFrame

\* a timeout that is due runs its callback, commitHistory('debounce')
TimerFire ==
  /\ \E t \in timers :
       /\ t.due <= clock.now
       /\ timers' = timers \ {t}
       /\ commitHistory(t.text, t.history)
  /\ UNCHANGED <<timerRef, clock, mounted, hText>>
  /\ TimerFrame

\* the cleanup of the mount effect: clearTimeout if the ref holds an id
Unmount ==
  /\ mounted
  /\ mounted' = FALSE
  /\ timers' = IF timerRef # 0 THEN clearTimeout(timers, timerRef) ELSE timers
  /\ UNCHANGED <<timerRef, clock>>
  /\ UNCHANGED <<hText, history, stored, lastSavedHash, now, lastCommit, sessionAppends>>
  /\ TimerFrame

\* the component mounts again: new state and refs, the history loaded from the store
Remount ==
  /\ ~mounted
  /\ mounted' = TRUE
  /\ hText' = <<>>
  /\ history' = stored
  /\ lastSavedHash' = IF Len(stored) > 0
                      THEN hashBase36(stored[Len(stored)].full) ELSE <<>>
  /\ timerRef' = 0
  /\ lastCommit' = <<>>
  /\ sessionAppends' = 0
  /\ UNCHANGED <<timers, clock, stored, now>>
  /\ TimerFrame

TimerNext == TimerKeystroke \/ Tick \/ TimerFire \/ Unmount \/ Remount

SpecTimer == Init /\ [][TimerNext]_vars

(***************************************************************************)
(* Loading the persisted stores at mount                                   *)
(***************************************************************************)
\* JSON.stringify of a lexicon, parsed: an unset field of a lexeme is left out
LexiconJson(lexicon) ==
  LET LexemeJson(lex) ==
        <<"object",
          [k \in {"term"} \cup (IF lex.weight = Unset THEN {} ELSE {"weight"})
                         \cup (IF lex.categories = Unset THEN {} ELSE {"categories"}) |->
             IF k = "term" THEN <<"string", lex.term>>
             ELSE IF k = "weight" THEN <<"number", lex.weight[1]>>
             ELSE <<"array", [j \in 1 .. Len(lex.categories[1]) |->
                               <<"string", lex.categories[1][j]>>]>>]>>
  IN  <<"object",
        [c \in Category |->
           <<"array", [i \in 1 .. Len(lexicon[c]) |-> LexemeJson(lexicon[c][i])]>>]>>

DEFAULT_GROWTH == <<"object", [c \in Category |-> <<"number", 0>>]>>

\* values found under the three keys: a saved value, values that are not of the
\* store's shape, and texts that are not JSON
StoredUnder(k) ==
  IF k = "lexicon"
  THEN { <<"none", 0>>, <<"empty", 0>>, <<"garbage", 0>>,
         <<"json", <<"null", 0>>>>, <<"json", <<"array", <<>>>>>>,
         <<"json", LexiconJson(Lexicons[2])>>,
         <<"json", <<"object", [c \in Category \ {"desire"} |-> <<"array", <<>>>>]>>>>,
         <<"json", <<"object", [c \in Category |->
                                 IF c = "longing" THEN <<"number", 1>>
                                 ELSE <<"array", <<>>>>]>>>> }
  ELSE IF k = "history"
  THEN { <<"none", 0>>, <<"garbage", 0>>,
         <<"json", <<"null", 0>>>>, <<"json", <<"object", <<>>>>>>,
         <<"json", <<"array", <<>>>>>>,
         <<"json", <<"array", << <<"object", <<>>>> >>>>>> }
  ELSE { <<"none", 0>>, <<"garbage", 0>>,
         <<"json", <<"object", [c \in Category |->
                                 <<"number", IF c = "sadness" THEN 3 ELSE 0>>]>>>>,
         <<"json", <<"null", 0>>>>, <<"json", <<"number", 5>>>>,
         <<"json", <<"array", <<>>>>>> }

LoadFrame ==
  /\ UNCHANGED otherVars
  /\ UNCHANGED <<showHistExport, histExportText, alerted, historyHashSet>>
  /\ UNCHANGED <<timers, timerRef, clock>>
  /\ UNCHANGED analysisVars
  /\ UNCHANGED appendVars
  /\ UNCHANGED appVars

\* the app is closed and nothing is stored
LoadInit ==
  /\ AnalysisIdle
  /\ AppendIdle
  /\ AppIdle

\* while the app is closed the keys are written by an earlier session, another
\* page of the origin or by hand
StorageWrite ==
  /\ ~mounted
  /\ \E k \in DOMAIN storage :
       \E raw \in StoredUnder(k) \ {storage[k]} :
         storage' = [storage EXCEPT ![k] = raw]
  /\ UNCHANGED <<mounted, loaded>>
  /\ LoadFrame

\* the mount effects: the three loads set the lexicon, history and growth states,
\* and the effects on lexicon and growth then save what was loaded
MountLoad ==
  /\ ~mounted
  /\ mounted' = TRUE
  /\ LET lex == loadLexicon(storage.lexicon)
         h == loadHistory(storage.history)
         g == loadGrowth(storage.growth)
     IN  /\ loaded' = << [from |-> storage, lexicon |-> lex, history |-> h, growth |-> g] >>
         /\ storage' = [storage EXCEPT
               !.lexicon = <<"json", IF lex = BuiltIn THEN LexiconJson(DEFAULT_LEXICON) ELSE lex>>,
               !.growth = <<"json", IF g = BuiltIn THEN DEFAULT_GROWTH ELSE g>>]
  /\ LoadFrame

\* the app is closed
Unload ==
  /\ mounted
  /\ mounted' = FALSE
  /\ loaded' = <<>>
  /\ UNCHANGED storage
  /\ LoadFrame

LoadNext == StorageWrite \/ MountLoad \/ Unload

SpecLoad == LoadInit /\ [][LoadNext]_vars

(***************************************************************************)
(* countSubstringIndices, as analyze calls it for the term of each lexeme  *)
(***************************************************************************)
\* iterations of the loop that are followed
MaxScanHits == 5

\* the texts analyzed, and the terms of the lexicon: terms of the default
\* lexicon, single characters, and the empty term that importLexiconJSON and
\* loadLexicon let through
ScanTexts == AppTexts \cup {<<22909, 12365, 22909, 12365>>, <<12356, 12356, 12356>>}
ScanTerms ==
  { <<>>, <<22909, 12365>>, <<20250, 12356, 12383, 12356>>, <<28057>>,
    <<12356>>, <<12391>>, <<12383>>, <<12354, 12394, 12383>> }

ScanFrame ==
  /\ UNCHANGED <<hashed, petVars>>
  /\ UNCHANGED analysisVars
  /\ UNCHANGED appendVars
  /\ UNCHANGED appVars
  /\ UNCHANGED <<mounted, showHistExport, histExportText, alerted, historyHashSet,
                 storage, loaded, timers, timerRef, clock>>

ScanInit == AnalysisIdle /\ AppendIdle /\ AppIdle

\* const indices = []; let from = 0
ScanCall ==
  /\ IF scan = <<>> THEN TRUE ELSE scan[1].done
  /\ \E text \in ScanTexts, term \in ScanTerms :
       scan' = <<[text |-> text, term |-> term, from |-> 0, indices |-> <<>>,
                 done |-> FALSE]>>
  /\ ScanFrame

\* term.length in from = idx + term.length
ScanAdvance(term) == Len(term)

\* one iteration of while (true)
ScanStep ==
  /\ scan # <<>>
  /\ ~scan[1].done
  /\ Len(scan[1].indices) < MaxScanHits
  /\ LET c == scan[1]
         idx == IndexOf(c.text, c.term, c.from)
     IN  scan' = IF idx = -1
                 THEN <<[c EXCEPT !.done = TRUE]>>
                 ELSE <<[c EXCEPT !.indices = Append(@, idx),
                                  !.from = idx + ScanAdvance(c.term)]>>
  /\ ScanFrame

ScanNext == ScanCall \/ ScanStep

SpecScan == ScanInit /\ [][ScanNext]_vars

(***************************************************************************)
(* The pet: TamagotchiPanel (feedLatest, the forms effect, the resets and   *)
(* the import) and quickFeed of the top page                               *)
(***************************************************************************)
\* A save is [stats, total, forms]; forms is <<>> when the save has no forms
\* property and <<[teen, adult]>> otherwise, each branch <<>> or <<category>>.

\* Math.floor(pet.total / 100) + 1
levelOf(total) == (total \div 100) + 1

stageFromLevel(lv) ==
  IF lv < 3 THEN "egg" ELSE IF lv < 6 THEN "child" ELSE IF lv < 10 THEN "teen" ELSE "adult"

\* gainFactor(lv), in hundredths
gainFactor(lv) == IF lv < 3 THEN 100 ELSE IF lv < 6 THEN 70 ELSE IF lv < 10 THEN 50 ELSE 35

\* the increment of one category: raw = score * 0.2 * gainFactor(lv), and
\* raw > 0 ? Math.max(1, Math.round(raw)) : 0
incOf(score, lv) ==
  LET rounded == (2 * score * gainFactor(lv) + 500) \div 1000
  IN  IF score > 0 THEN (IF rounded > 1 THEN rounded ELSE 1) ELSE 0

\* cats.reduce((a, b) => (s[a] >= s[b] ? a : b))
RECURSIVE topFrom(_, _, _)
topFrom(s, a, i) ==
  IF i > Len(categories) THEN a
  ELSE topFrom(s, IF s[a] >= s[categories[i]] THEN a ELSE categories[i], i + 1)

topBy(s) == topFrom(s, categories[1], 2)

\* pet.forms?.teen, pet.forms?.adult
formOf(p, st) == IF p.forms = <<>> THEN <<>> ELSE p.forms[1][st]

\* { ...(p.forms ?? {}), [st]: cat }
withForm(p, st, cat) ==
  <<[(IF p.forms = <<>> THEN [teen |-> <<>>, adult |-> <<>>] ELSE p.forms[1])
       EXCEPT ![st] = <<cat>>]>>

\* the normalized results the top page can show, scores in whole points
PetMeals ==
  << [c \in Category |-> 0],
     [c \in Category |-> IF c = "affection" THEN 100 ELSE 0],
     [c \in Category |-> IF c = "longing" THEN 100 ELSE IF c = "affection" THEN 50 ELSE 0],
     [c \in Category |-> 100],
     [c \in Category |-> IF c \in {"sadness", "desire"} THEN 100 ELSE 0] >>

\* the saves the store can hold when the app starts
PetSaves ==
  { DEFAULT_SAVE,
    [stats |-> [c \in Category |-> IF c = "affection" THEN 480 ELSE 0], total |-> 480,
     forms |-> <<[teen |-> <<>>, adult |-> <<>>]>>],
    [stats |-> [c \in Category |-> IF c = "longing" THEN 880 ELSE 0], total |-> 880,
     forms |-> <<[teen |-> <<"longing">>, adult |-> <<>>]>>] }

\* the save data applyImport is given, after its normalisation
PetImports ==
  { [stats |-> [c \in Category |-> IF c = "desire" THEN 950 ELSE 0], total |-> 950,
     forms |-> <<[teen |-> <<"desire">>, adult |-> <<"sadness">>]>>],
    [stats |-> [c \in Category |-> IF c = "sadness" THEN 590 ELSE 0], total |-> 590,
     forms |-> <<[teen |-> <<>>, adult |-> <<>>]>>] }

PetFrame ==
  /\ UNCHANGED <<hashed, scan>>
  /\ UNCHANGED analysisVars
  /\ UNCHANGED appendVars
  /\ UNCHANGED appVars
  /\ UNCHANGED <<mounted, showHistExport, histExportText, alerted, historyHashSet,
                 storage, loaded, timers, timerRef, clock>>

PetInit ==
  /\ AnalysisIdle
  /\ AppendIdle
  /\ HistoryIdle
  /\ hashed = <<>>
  /\ scan = <<>>
  /\ pet = <<>>
  /\ petSaved \in PetSaves
  /\ feedLog = {}
  /\ latest = 1
  /\ lastStageRef = "egg"

\* the stats and the total of a save after a meal
fed(p, meal) ==
  LET lv == levelOf(p.total)
  IN  [stats |-> [c \in Category |-> p.stats[c] + incOf(meal[c], lv)],
       total |-> p.total + incOf(meal["affection"], lv) + incOf(meal["longing"], lv)
                   + incOf(meal["sadness"], lv) + incOf(meal["dependence"], lv)
                   + incOf(meal["desire"], lv)]

\* the forms effect of the panel, run in the render that follows setPet(p):
\* on a change of stage it fixes the branch of the new stage when the pet of
\* that render has none, and it records the stage
formsEffect(p) ==
  LET stage == stageFromLevel(levelOf(p.total))
      topCat == topBy(PetMeals[latest])
  IN  IF stage # lastStageRef /\ stage \in {"teen", "adult"} /\ formOf(p, stage) = <<>>
      THEN [p EXCEPT !.forms = withForm(p, stage, topCat)]
      ELSE p

\* setPet(p) in the panel, with the effects of the renders that follow: the
\* forms effect and savePet
setPet(p) ==
  /\ pet' = <<formsEffect(p)>>
  /\ petSaved' = formsEffect(p)
  /\ lastStageRef' = stageFromLevel(levelOf(p.total))

\* the top page is given another text to measure
Measure ==
  /\ pet = <<>>
  /\ \E m \in 1 .. Len(PetMeals) : m # latest /\ latest' = m
  /\ UNCHANGED <<pet, petSaved, feedLog, lastStageRef>>
  /\ PetFrame

\* the panel is mounted: useState(() => loadPet()), useRef(stage)
OpenPanel ==
  /\ pet = <<>>
  /\ pet' = <<petSaved>>
  /\ lastStageRef' = stageFromLevel(levelOf(petSaved.total))
  /\ UNCHANGED <<petSaved, feedLog, latest>>
  /\ PetFrame

ClosePanel ==
  /\ pet # <<>>
  /\ pet' = <<>>
  /\ UNCHANGED <<petSaved, feedLog, latest, lastStageRef>>
  /\ PetFrame

\* mutant: next keeps the forms of the pet
nextOfKeepingForms(p, meal) ==
  [stats |-> fed(p, meal).stats, total |-> fed(p, meal).total, forms |-> p.forms]

\* const next = { stats: { ...pet.stats }, total: pet.total, version: pet.version }
\* with the increments added: it has no forms property
nextOf(p, meal) ==
  [stats |-> fed(p, meal).stats, total |-> fed(p, meal).total, forms |-> <<>>]

\* the feed button of the panel
feedLatest ==
  /\ pet # <<>>
  /\ latest \notin feedLog
  /\ setPet(nextOf(pet[1], PetMeals[latest]))
  /\ feedLog' = feedLog \cup {latest}
  /\ UNCHANGED latest
  /\ PetFrame

\* the quick feed button of the top page
quickFeed ==
  /\ pet = <<>>
  /\ latest \notin feedLog
  /\ LET meal == PetMeals[latest]
         p == petSaved
         next == [stats |-> fed(p, meal).stats, total |-> fed(p, meal).total,
                  forms |-> IF p.forms = <<>> THEN <<[teen |-> <<>>, adult |-> <<>>]>>
                            ELSE p.forms]
         prevStage == stageFromLevel(levelOf(p.total))
         newStage == stageFromLevel(levelOf(next.total))
     IN  petSaved' =
           IF newStage # prevStage /\ newStage \in {"teen", "adult"}
              /\ formOf(next, newStage) = <<>>
           THEN [next EXCEPT !.forms = withForm(next, newStage, topBy(meal))]
           ELSE next
  /\ feedLog' = feedLog \cup {latest}
  /\ UNCHANGED <<pet, latest, lastStageRef>>
  /\ PetFrame

\* the evolution reset button, confirmed
resetEvolution ==
  /\ pet # <<>>
  /\ setPet([pet[1] EXCEPT !.forms = <<[teen |-> <<>>, adult |-> <<>>]>>])
  /\ UNCHANGED <<feedLog, latest>>
  /\ PetFrame

\* the reset button, confirmed
resetPet ==
  /\ pet # <<>>
  /\ setPet(DEFAULT_SAVE)
  /\ UNCHANGED <<feedLog, latest>>
  /\ PetFrame

\* the import of the backup window, confirmed
applyImport ==
  /\ pet # <<>>
  /\ \E obj \in PetImports : setPet(obj)
  /\ UNCHANGED <<feedLog, latest>>
  /\ PetFrame

PetNext ==
  \/ Measure
  \/ OpenPanel
  \/ ClosePanel
  \/ feedLatest
  \/ quickFeed
  \/ resetEvolution
  \/ resetPet
  \/ applyImport

SpecPet == PetInit /\ [][PetNext]_vars

\* the eviction loop run for at most fuel iterations: the list it has reached,
\* and whether the loop has exited
RECURSIVE EvictWithin(_, _, _)
EvictWithin(next, max, fuel) ==
  IF ~(Len(next) > max) \/ FirstUnpinned(next) = 0
  THEN [list |-> next, done |-> TRUE]
  ELSE IF fuel = 0
  THEN [list |-> next, done |-> FALSE]
  ELSE EvictWithin(RemoveAt(next, FirstUnpinned(next)), max, fuel - 1)

\* the loop started on next exits within Len(next) iterations with result, and
\* result is within the cap or all pinned
EvictionEnds(next, result, max) ==
  LET run == EvictWithin(next, max, Len(next))
  IN  /\ run.done
      /\ run.list = result
      /\ \/ Len(result) <= max
         \/ \A i \in 1 .. Len(result) : result[i].pinned

\* C14: the eviction loop of appendWithLimit exits, after at most as many
\* iterations as the list has items, and the list returned has at most max
\* items or only pinned items, in both variants of appendWithLimit.
C14_EvictionTerminates ==
  apCall # <<>> =>
    LET c == apCall[1]
    IN  /\ ~c.same => EvictionEnds(c.existing \o <<c.draft>>, apList, apMax)
        /\ ~c.sameAll => EvictionEnds(c.existingAll \o <<c.draft>>, apListAll, apMax)

\* C14 witness: a call whose loop removed an item and then stopped over the cap
\* because only pinned items were left
C14_Witness ==
  /\ apCall # <<>>
  /\ ~apCall[1].same
  /\ Len(apList) > apMax
  /\ Len(apList) < Len(apCall[1].existing) + 1
  /\ \A i \in 1 .. Len(apList) : apList[i].pinned
  /\ ~apCall[1].sameAll
  /\ Len(apListAll) > apMax
  /\ Len(apListAll) < Len(apCall[1].existingAll) + 1

(***************************************************************************)
(* Properties of the scoring engine                                        *)
(***************************************************************************)
\* keyword w stands in t at 0-based position p
KeywordAt(t, w, p) ==
  /\ p >= 0
  /\ p + Len(w) <= Len(t)
  /\ \A j \in 1 .. Len(w) : t[p + j] = w[j]

\* some word of the list lies wholly inside positions lo .. hi - 1 of t
KeywordInside(t, words, lo, hi) ==
  \E n \in 1 .. Len(words) :
    \E p \in lo .. hi : KeywordAt(t, words[n], p) /\ p + Len(words[n]) <= hi

\* a negation keyword within the 6 characters after the occurrence
NegationFollows(t, occ) ==
  KeywordInside(t, NEGATIONS, occ.idx + Len(occ.term), occ.idx + Len(occ.term) + 6)

\* an intensifier within the 8 characters before the occurrence
IntensifierPrecedes(t, occ) ==
  KeywordInside(t, INTENSIFIERS, IF occ.idx > 8 THEN occ.idx - 8 ELSE 0, occ.idx)

\* a diminisher within the 8 characters before the occurrence
DiminisherPrecedes(t, occ) ==
  KeywordInside(t, DIMINISHERS, IF occ.idx > 8 THEN occ.idx - 8 ELSE 0, occ.idx)

\* the weight and the categories the lexicon entry of an occurrence states
StatedWeight(occ) ==
  IF occ.lexeme.weight = <<>> THEN <<1, 1>> ELSE occ.lexeme.weight[1]

StatedCats(occ) ==
  IF occ.lexeme.categories = <<>> THEN {occ.owner}
  ELSE {occ.lexeme.categories[1][j] : j \in 1 .. Len(occ.lexeme.categories[1])}

IsBlank(t) == \A i \in 1 .. Len(t) : t[i] \in WhiteSpace

RECURSIVE QSumOver(_, _)
QSumOver(f, S) ==
  IF S = {} THEN <<0, 1>>
  ELSE LET x == CHOOSE x \in S : TRUE IN QAdd(f[x], QSumOver(f, S \ {x}))

\* the sum of the deltas of the occurrences of aTrace whose index is in K
DeltaSum(K) == QSumOver([k \in K |-> aTrace[k].delta], K)

\* C1: every normalized score lies in [0,100]; if some raw score is nonzero the
\* largest normalized score is 100, and if all raw scores are 0 so are all
\* normalized scores
C1_NormalizedRange ==
  /\ \A c \in Category :
       QLe(<<0, 1>>, aRes.normalized[c]) /\ QLe(aRes.normalized[c], <<100, 1>>)
  /\ (\E c \in Category : aRes.raw[c] # <<0, 1>>)
       => \E c \in Category :
            /\ aRes.normalized[c] = <<100, 1>>
            /\ \A d \in Category : QLe(aRes.normalized[d], <<100, 1>>)
  /\ (\A c \in Category : aRes.raw[c] = <<0, 1>>)
       => \A c \in Category : aRes.normalized[c] = <<0, 1>>

StatedFactor(t, occ) ==
  IF IntensifierPrecedes(t, occ) /\ DiminisherPrecedes(t, occ) THEN <<21, 20>>
  ELSE IF IntensifierPrecedes(t, occ) THEN <<3, 2>>
  ELSE IF DiminisherPrecedes(t, occ) THEN <<7, 10>>
  ELSE <<1, 1>>

\* C6: without negation in the right window, delta = weight x factor with factor
\* 1.5 / 0.7 / 1.05 / 1 by the presence of an intensifier / a diminisher / both /
\* neither in the 8 preceding characters
C6_FactorByPresence ==
  \A k \in 1 .. Len(aTrace) :
    ~NegationFollows(Trim(aText), aTrace[k])
      => aTrace[k].delta
           = QMul(StatedWeight(aTrace[k]), StatedFactor(Trim(aText), aTrace[k]))

\* C6 witness: an occurrence behind both an intensifier and a diminisher, and
\* one behind two intensifiers
C6_Witness ==
  \E k \in 1 .. Len(aTrace) :
    /\ ~NegationFollows(Trim(aText), aTrace[k])
    /\ IntensifierPrecedes(Trim(aText), aTrace[k])
    /\ DiminisherPrecedes(Trim(aText), aTrace[k])
    /\ aTrace[k].weight = <<2, 1>>
    /\ aTrace[k].delta = <<21, 10>>

\* amp x lengthNorm of a trimmed text
StatedScale(t) ==
  LET n == Cardinality({i \in 1 .. Len(t) : t[i] = 33 \/ t[i] = 65281})
      amp == IF n >= 10 THEN <<3, 2>> ELSE QAdd(<<1, 1>>, <<5 * n, 100>>)
      norm == IF Len(t) <= 180 THEN <<1, 1>>
              ELSE IF 10 * 180 <= 7 * Len(t) THEN <<7, 10>>
              ELSE Q(180, Len(t))
  IN  QMul(amp, norm)

\* the occurrences of aTrace routed to category cc (with the given term)
RoutedTo(cc) == {k \in 1 .. Len(aTrace) : cc \in StatedCats(aTrace[k])}
RoutedTerm(cc, term) == {k \in RoutedTo(cc) : aTrace[k].term = term}

\* the ledger of a category without the reserved key, summed
LedgerSum(cc) ==
  QSumOver(aRes.details[cc], DOMAIN aRes.details[cc])

FallBackCats(occ) ==
  IF occ.lexeme.categories = Unset \/ occ.lexeme.categories = <<<<>>>>
  THEN {occ.owner}
  ELSE StatedCats(occ)

\* C20: every occurrence of a lexeme whose categories is unset or an empty list
\* adds its delta to the ledger and the raw score of its owning category: each
\* ledger entry is the sum of the deltas routed to it, an empty list counting
\* as the owning category.
C20_EmptyCategoriesFallBack ==
  LET t == Trim(aText)
  IN  t # <<>> =>
        \A cc \in Category :
          LET routed == {k \in 1 .. Len(aTrace) : cc \in FallBackCats(aTrace[k])}
          IN  /\ DOMAIN aRes.details[cc] \ {RELATION_META}
                   = {aTrace[k].term : k \in routed}
              /\ \A term \in DOMAIN aRes.details[cc] \ {RELATION_META} :
                   aRes.details[cc][term]
                     = DeltaSum({k \in routed : aTrace[k].term = term})

\* C8: for empty or whitespace-only text raw and normalized are 0 for all five
\* categories, the ledger is empty, no occurrence is matched and there is no leader
C8_BlankIsAllZero ==
  IsBlank(aText) =>
    /\ \A c \in Category : aRes.raw[c] = <<0, 1>> /\ aRes.normalized[c] = <<0, 1>>
    /\ aRes.details = <<>>
    /\ aTrace = <<>>
    /\ aLeaders = <<>>

\* C8 witness: a whitespace-only text under a lexicon other than the default
C8_Witness ==
  /\ aText # <<>>
  /\ IsBlank(aText)
  /\ aRes.details = <<>>
  /\ aLeaders = <<>>

(***************************************************************************)
(* Properties of the history store                                         *)
(***************************************************************************)
\* the full text a commit of t works on
FullOf(t) == Slice(Trim(t), 0, 1000)

\* this step is a trigger running commitHistory on text t, past the length check
CommitOf(t) ==
  /\ Len(Trim(t)) >= HISTORY_MIN_CHARS
  /\ \/ Blur /\ t = hText
     \/ DebounceFire /\ t = saveTimer[1].text

\* the commit before this one was of the same full text
SameAsBefore(t) == lastCommit # <<>> /\ lastCommit[1].full = FullOf(t)

\* C2 as stated: a commit of the text the commit before it was of, by either
\* trigger, leaves the history list unchanged; that is, no step that changes the
\* history is such a commit.
C2_SecondCommitSuppressed ==
  [][history' # history =>
       ~ \E t \in AppTexts : SameAsBefore(t) /\ CommitOf(t)]_vars

\* C2 amended: a commit of the text the commit before it was of leaves the
\* history list and its stored copy unchanged when that earlier commit appended
\* its item and no bulk clear came in between; that is, no step that changes
\* either is such a commit.
C2_SecondCommitSuppressedUnlessCleared ==
  [][history' # history \/ stored' # stored =>
       ~ \E t \in AppTexts :
           /\ SameAsBefore(t)
           /\ lastCommit[1].appended
           /\ ~lastCommit[1].cleared
           /\ CommitOf(t)]_vars

\* C2 witness: the latest commit repeated the text of an appending commit, found
\* the guard holding its hash and appended nothing; the item is stored once
C2_Witness ==
  /\ lastCommit # <<>>
  /\ lastCommit[1].again
  /\ ~lastCommit[1].appended
  /\ lastSavedHash = hashBase36(lastCommit[1].full)
  /\ Cardinality({i \in 1 .. Len(history) : history[i].full = lastCommit[1].full}) = 1

\* the commit precondition for text t: long enough, and not the text of the guard
MayCommit(t) ==
  /\ Len(Trim(t)) >= HISTORY_MIN_CHARS
  /\ lastSavedHash # hashBase36(FullOf(t))

\* C16: a run of commitHistory, by blur on the current text or by the timer on
\* the text its callback holds, changes the history, the stored copy or the
\* last-committed hash only if the trimmed text has at least HISTORY_MIN_CHARS
\* characters and its hash is not the last-committed hash.
C16_CommitPrecondition ==
  [][history' # history \/ stored' # stored \/ lastSavedHash' # lastSavedHash =>
       /\ Blur => MayCommit(hText)
       /\ DebounceFire => MayCommit(saveTimer[1].text)]_vars

\* C16 witness: the timer has run commitHistory on the text of the guard and the
\* text now in the box is non-blank and too short; nothing was appended
C16_Witness ==
  /\ lastCommit # <<>>
  /\ ~lastCommit[1].appended
  /\ lastSavedHash = hashBase36(lastCommit[1].full)
  /\ saveTimer = <<>>
  /\ Trim(hText) # <<>>
  /\ Len(Trim(hText)) < HISTORY_MIN_CHARS
  /\ stored = history
  /\ Len(history) = 1

\* the shapes of the three stores
LexiconShape(v) ==
  /\ v[1] = "object"
  /\ Category \subseteq DOMAIN v[2]
  /\ \A c \in Category : v[2][c][1] = "array"
HistoryShape(v) == v[1] = "array"
GrowthShape(v) ==
  /\ v[1] = "object"
  /\ Category \subseteq DOMAIN v[2]
  /\ \A c \in Category : v[2][c][1] = "number"

\* the stored text does not parse, or parses to a value that fails the shape
Malformed(raw, Shape(_)) ==
  /\ raw[1] # "none"
  /\ raw[1] = "json" => ~Shape(raw[2])

\* C19: each of the three loads returns its built-in default when the stored
\* value does not parse or parses to a value of the wrong shape, whatever the
\* other two keys hold.
C19_MalformedStoreLoadsDefault ==
  loaded # <<>> =>
    LET l == loaded[1]
    IN  /\ Malformed(l.from.lexicon, LexiconShape) => l.lexicon = BuiltIn
        /\ Malformed(l.from.history, HistoryShape) => l.history = <<"array", <<>>>>
        /\ Malformed(l.from.growth, GrowthShape) => l.growth = BuiltIn

\* C15: at most one timeout is pending, and it is the one the latest keystroke
\* scheduled, due a debounce interval after that keystroke; none is pending
\* while the component is unmounted; and a timeout runs its commit only when a
\* debounce interval has passed since the latest keystroke.
C15_OneTimerAfterQuietInterval ==
  /\ [](/\ Cardinality(timers) <= 1
        /\ \A t \in timers : t.id = timerRef /\ t.due = clock.keyAt + DebounceTicks
        /\ ~mounted => timers = {})
  /\ [][timers' # timers /\ TimerFire => clock.now >= clock.keyAt + DebounceTicks]_vars

\* C15 witness: a keystroke superseded a pending timeout, and the timeout of the
\* last keystroke has run and appended an item
C15_Witness ==
  /\ mounted
  /\ clock.ids >= 2
  /\ timerRef = clock.ids
  /\ timers = {}
  /\ clock.now >= clock.keyAt + DebounceTicks
  /\ lastCommit # <<>>
  /\ lastCommit[1].appended

\* the file is a JSON array whose every element has id, ts and full, all strings
Importable(file) ==
  /\ file[1] = "json"
  /\ file[2][1] = "array"
  /\ \A i \in 1 .. Len(file[2][2]) : {"id", "ts", "full"} \subseteq DOMAIN file[2][2][i]

\* C17: an import of a JSON array whose every element has string id, ts and full
\* makes the history and its stored copy exactly that array; an import of any
\* other file leaves the history, the stored copy and the last-committed hash as
\* they were and raises the failure alert.
C17_ImportAllOrNothing ==
  [][\A file \in ImportFiles \cup (IF showHistExport THEN {histExportText} ELSE {}) :
       handleImportHistoryInputOf(file) =>
         IF Importable(file)
         THEN /\ history' = file[2][2]
              /\ stored' = file[2][2]
              /\ lastSavedHash' = lastSavedHash
         ELSE /\ history' = history
              /\ stored' = stored
              /\ lastSavedHash' = lastSavedHash
              /\ alerted' = <<"import">>]_vars

\* C17 witness: a file with a valid and an invalid element was refused while
\* the history held items that are not in the file
C17_Witness ==
  /\ alerted = <<"import">>
  /\ Len(history) = 2
  /\ stored = history
  /\ \E i \in 1 .. Len(history) : history[i].ts # 9 /\ history[i].ts # 8

\* the import of the text the export dialog shows, exported from the history as it is
ImportExported ==
  /\ showHistExport
  /\ histExportText = JSONstringify(history)
  /\ handleImportHistoryInputOf(histExportText)

\* C18: importing the text that doExportHistory made of the history leaves the
\* history the same list, item for item.
C18_ExportImportRoundTrip ==
  [][ImportExported => history' = history]_vars

\* C4: the debounce trigger and the blur trigger of one edit session, with no
\* other event between them, append at most one history item between them.
C4_OneAppendPerSession == sessionAppends <= 1

\* C9: no two items of the history have the same content hash.
C9_HashesUnique ==
  \A i, j \in 1 .. Len(history) :
    i # j => hashBase36(history[i].full) # hashBase36(history[j].full)

\* the append of one more item pushes item i of the history out over the cap
CapEvicts(i) == ~history[i].pinned /\ Len(history) + 1 > HistoryMax

\* C10: a commit, by either trigger, leaves every stored item in the history
\* with its fields as they were, unless the cap evicts it.
C10_CommitKeepsStoredItems ==
  [][Blur \/ DebounceFire =>
       \A i \in 1 .. Len(history) :
         \/ \E j \in 1 .. Len(history') : history'[j] = history[i]
         \/ CapEvicts(i)]_vars

\* C11: a debounce commit that appends an item builds it from the text that is
\* current when the timer fires: the full text of the new item is the trimmed
\* current text, and its scores and leaders are those of that text.
C11_DebounceCommitsCurrentText ==
  [][history' # history /\ DebounceFire =>
       LET item == history'[Len(history')]
           clean == Trim(hText)
           res == analyze(clean, DEFAULT_LEXICON, TRUE)
       IN  /\ item.full = FullOf(hText)
           /\ item.norm = [i \in 1 .. Len(categories) |->
                             round1(res.normalized[categories[i]])]
           /\ item.lead = leaders(clean, res)]_vars

\* the item of the history with this id
ItemOf(list, id) == list[CHOOSE i \in 1 .. Len(list) : list[i].id = id]

\* C12 in the recent-window variant of the app: a delete that targets a pinned
\* item leaves the history and the stored copy unchanged, the item present and
\* pinned, and raises the warning toast.
C12_PinnedDeleteRefused ==
  [][\A id \in IdsOf(history) :
       ItemOf(history, id).pinned /\ deleteHistoryItemOf(id)
       => /\ history' = history
          /\ stored' = stored
          /\ id \in IdsOf(history') /\ ItemOf(history', id).pinned
          /\ toast' = <<"warn">>]_vars

\* C13 in the recent-window variant of the app: after a bulk clear the history
\* and the stored copy are the pinned items of the history before it, in their
\* order and still pinned.
C13_ClearKeepsPinned ==
  [][clearAllHistory =>
       /\ history' = SelectSeq(history, LAMBDA it : it.pinned)
       /\ stored' = history'
       /\ \A i \in 1 .. Len(history) :
            history[i].pinned => \E j \in 1 .. Len(history') : history'[j] = history[i]]_vars

\* C12 in the whole-history variant of the app: a delete that targets a pinned
\* item leaves the history and the stored copy unchanged and the item present
\* and pinned.
C12_PinnedDeleteRefusedApp1 ==
  [][\A id \in IdsOf(history) :
       ItemOf(history, id).pinned /\ App1_deleteHistoryItemOf(id)
       => /\ history' = history
          /\ stored' = stored
          /\ id \in IdsOf(history') /\ ItemOf(history', id).pinned]_vars

\* C13 in the whole-history variant of the app: after a bulk clear every item
\* that was pinned is still in the history and in the stored copy, in the same
\* order and still pinned.
C13_ClearKeepsPinnedApp1 ==
  [][App1_clearAllHistory =>
       /\ SelectSeq(history', LAMBDA it : it.pinned)
            = SelectSeq(history, LAMBDA it : it.pinned)
       /\ SelectSeq(stored', LAMBDA it : it.pinned)
            = SelectSeq(history, LAMBDA it : it.pinned)]_vars

\* the largest of the normalized scores of the live view
TopNormalized ==
  CHOOSE m \in {aRes.normalized[c] : c \in Category} :
    \A c \in Category : QLe(aRes.normalized[c], m)

\* C21: for a non-blank text whose largest normalized score is above 0 the
\* leaders are exactly the categories whose normalized score is within 0.0001
\* of the largest one, at least one of them, each listed once; for a blank
\* text or a result that is all zeroes there is no leader
C21_LeadersAreTheTied ==
  LET leaderSet == {aLeaders[i] : i \in 1 .. Len(aLeaders)}
  IN  /\ (~IsBlank(aText) /\ QLt(QZero, TopNormalized)) =>
           /\ leaderSet =
                {c \in Category :
                   QLe(QAbs(QSub(aRes.normalized[c], TopNormalized)), Q(1, 10000))}
           /\ leaderSet # {}
           /\ Len(aLeaders) = Cardinality(leaderSet)
      /\ (IsBlank(aText) \/ \A c \in Category : aRes.normalized[c] = QZero) =>
           aLeaders = <<>>

\* C21 witness: a non-blank text with three categories tied at the top
C21_Witness ==
  /\ ~IsBlank(aText)
  /\ QLt(QZero, TopNormalized)
  /\ Len(aLeaders) = 3

\* the occurrences of the relationship words in a trimmed text
RelationWordsIn(t) ==
  {<<n, p>> \in (1 .. Len(bondBoosters)) \X (0 .. Len(t)) :
     KeywordAt(t, bondBoosters[n], p)}

\* C22: switching the relation boost leaves the raw scores of the four
\* categories other than affection as they were and moves the affection one
\* by 0.6 per occurrence of a relationship word (scaled as every raw score
\* is); the bonus is recorded in the affection ledger under the reserved key
\* and nowhere else, and the reserved key is in no list of top terms, neither
\* the six of the live view nor the three of a history item
C22_RelationBoostOnlyAffection ==
  /\ [](LET t == Trim(aText)
             bonus == Q(6 * Cardinality(RelationWordsIn(t)), 10)
         IN  t # <<>> =>
               /\ \A c \in Category :
                    /\ RELATION_META \in DOMAIN aRes.details[c]
                         <=> (c = "affection" /\ aBoost /\ RelationWordsIn(t) # {})
                    /\ RELATION_META \notin topTerms(aRes.details, c, 6)
                    /\ RELATION_META \notin topTerms(aRes.details, c, 3)
               /\ RELATION_META \in DOMAIN aRes.details["affection"] =>
                    aRes.details["affection"][RELATION_META] = bonus)
  /\ [][(aText' = aText /\ aLex' = aLex /\ aBoost' # aBoost) =>
          LET t == Trim(aText)
              bonus == Q(6 * Cardinality(RelationWordsIn(t)), 10)
              on == IF aBoost THEN aRes ELSE aRes'
              off == IF aBoost THEN aRes' ELSE aRes
          IN  /\ \A c \in Category \ {"affection"} : aRes'.raw[c] = aRes.raw[c]
              /\ on.raw["affection"]
                   = QAdd(off.raw["affection"], QMul(bonus, StatedScale(t)))]_vars

\* C22 witness: the boost is on, a relationship word is in the text and a
\* category other than affection has a raw score above 0
C22_Witness ==
  /\ aBoost
  /\ RelationWordsIn(Trim(aText)) # {}
  /\ RELATION_META \in DOMAIN aRes.details["affection"]
  /\ \E c \in Category \ {"affection"} : QLt(<<0, 1>>, aRes.raw[c])

\* 31 * h + code folded from 0 and wrapped to signed 32 bits, then the
\* absolute value, worked out by hand for some strings, as <<high, low>>
\* 16-bit halves
HashByHand ==
  (<<>> :> <<0, 0>>)
  @@ (<<97>> :> <<0, 97>>)
  @@ (<<97, 12354>> :> <<0, 15361>>)
  @@ (<<12354, 97, 97, 65535>> :> <<5618, 18525>>)
  @@ (<<65535, 65535, 65535, 65535, 65535>> :> <<28749, 36801>>)
  @@ (<<12354, 12354, 12354, 12354, 12354, 12354>> :> <<6130, 59584>>)
  @@ (<<65535, 65535, 65535, 65535, 65535, 65535, 65535>> :> <<27895, 23647>>)
  @@ (<<97, 65535, 12354, 97, 65535, 12354, 97>> :> <<29148, 14623>>)

\* C23: simpleHash returns the absolute value of the fold h <- 31 * h + code
\* from 0 wrapped to signed 32 bits: an integer from 0 to 2^31, the same in
\* both program variants (both read nothing but the string)
C23_SimpleHashFold ==
  hashed # <<>> =>
    LET r == hashed[1]
    IN  /\ r.app1 = r.part001
        /\ r.app1 \in (0 .. 65535) \X (0 .. 65535)
        /\ r.app1[1] < 32768 \/ r.app1 = <<32768, 0>>
        /\ r.s \in DOMAIN HashByHand => r.app1 = HashByHand[r.s]

\* C23 witness: a string whose fold has wrapped to a negative number
C23_Witness ==
  /\ hashed # <<>>
  /\ hashed[1].s = <<97, 65535, 12354, 97, 65535, 12354, 97>>
  /\ hashed[1].part001 = <<29148, 14623>>

\* the branch of a stage that the store holds
savedForm(st) == formOf(petSaved, st)

\* C24: a feed, from the panel or from the top page, leaves a branch that is
\* fixed, teen or adult, as it was
C24_FixedBranchStaysThroughFeeds ==
  [][(feedLatest \/ quickFeed) =>
       \A st \in {"teen", "adult"} :
         savedForm(st) # <<>> => formOf(petSaved', st) = savedForm(st)]_vars

\* C25: a commit that gets past the length check, the guard and the check of
\* the recent items leaves in the history an item whose full text is the text
\* committed
C25_CommitCompletes ==
  [][\A t \in AppTexts :
       (CommitOf(t) /\ lastCommit' # <<>> /\ lastCommit'[1].appended
          /\ lastSavedHash' = hashBase36(FullOf(t)))
         => \E i \in 1 .. Len(history') : history'[i].full = FullOf(t)]_vars

\* C26: every iteration of the loop of countSubstringIndices that finds the
\* term moves the search cursor forward
C26_ScanAdvances ==
  [][(ScanStep /\ ~scan'[1].done) => scan'[1].from > scan[1].from]_vars

\* C27: appendWithLimit takes a draft for a duplicate only when one of the
\* recent items has the full text of the draft
C27_DuplicateOnlyIfSameText ==
  apCall # <<>> =>
    LET c == apCall[1]
        recent == LastN(c.existing, RecentWindow)
    IN  c.same => \E i \in 1 .. Len(recent) : recent[i].full = c.draft.full

\* C28: in the whole-history variant the hash set holds exactly the content
\* hashes of the items of the history
C28_HashSetMatchesHistory == historyHashSet = HashesOf(history)

\* C29: when the guard holds a hash, some item of the history has that
\* content hash
C29_GuardHashInHistory ==
  lastSavedHash # <<>> =>
    \E i \in 1 .. Len(history) : hashBase36(history[i].full) = lastSavedHash

\* C30 as stated: every comment is for a leader, and when the maximum raw score
\* is at least 0.0001 every leader's normalized score is 100 and every comment
\* comes from the high pool
C30_LeaderScoresHundred ==
  LET lead == {aLeaders[i] : i \in 1 .. Len(aLeaders)}
      top  == CHOOSE m \in {aRes.raw[c] : c \in Category} :
                \A c \in Category : QLe(aRes.raw[c], m)
  IN /\ \A i \in 1 .. Len(aComments) : aComments[i].cat \in lead
     /\ QLe(Q(1, 10000), top) =>
          /\ \A c \in lead : aRes.normalized[c] = QInt(100)
          /\ \A i \in 1 .. Len(aComments) : aComments[i].pool = <<"high">>

\* C30 amended: every comment is for a leader, and when the maximum raw score is
\* at least 0.0001 every leader's normalized score is within 0.0001 of 100, so
\* every comment comes from the high pool
C30_LeaderCommentsAreHigh ==
  LET lead == {aLeaders[i] : i \in 1 .. Len(aLeaders)}
      top  == CHOOSE m \in {aRes.raw[c] : c \in Category} :
                \A c \in Category : QLe(aRes.raw[c], m)
  IN /\ \A i \in 1 .. Len(aComments) : aComments[i].cat \in lead
     /\ QLe(Q(1, 10000), top) =>
          /\ \A c \in lead :
               /\ QLe(QSub(QInt(100), Q(1, 10000)), aRes.normalized[c])
               /\ QLe(aRes.normalized[c], QInt(100))
          /\ \A i \in 1 .. Len(aComments) : aComments[i].pool = <<"high">>

\* a rendered text with two leaders, one of them below 100, both commented from
\* the high pool
C30_Witness ==
  /\ \E c \in Category : QLe(Q(1, 10000), aRes.raw[c])
  /\ Len(aComments) = 2
  /\ \E i \in 1 .. 2 :
       /\ aComments[i].pool = <<"high">>
       /\ QLt(aRes.normalized[aComments[i].cat], QInt(100))
====
